---- MODULE Spec2Model ----
(***************************************************************************)
(* Beot: the focus-session ("vow") timer.                                  *)
(*                                                                         *)
(* The model follows the Bubble Tea program of src/ui: AppModel routes     *)
(* every message either to one of its own cases or to the model of the     *)
(* active view.  A handler returns the new model and a command; the        *)
(* runtime runs the command concurrently and puts the message it yields    *)
(* back into the program, so messages in flight form a bag and are         *)
(* delivered in any order, interleaved with key presses.                   *)
(***************************************************************************)
EXTENDS Integers, Sequences, FiniteSets, Bags, TLC

(***************************************************************************)
(* Bounds of the model.                                                    *)
(***************************************************************************)
MaxMinutes == 1      \* durations handed to NewTimerModelWithMode: 1..MaxMinutes
MaxTicks == 2        \* a key that schedules a tick is pressed only below this many pending ticks
MaxComplete == 2     \* a key that emits an outcome is pressed only below this many pending outcomes
MaxTimers == 1       \* sessions the user starts
MaxNav == 1          \* navigation messages in flight when the user presses a key
NumSubjects == 1     \* subjects stored in the database
MaxDays == 3         \* the clock of the streak calculator runs over the days 0..MaxDays
MaxSessions == 4     \* completed sessions stored for the streak calculator
\* Quotes ever stored in the quotes collection.
MaxQuotes == 2
\* Calls of the quotes collection and their messages in flight at a time.
MaxCalls == 2
\* Calls of db.Connect.
MaxConnects == 3

(***************************************************************************)
(* Program constants.                                                      *)
(***************************************************************************)
SecondsPerMinute == 60
HoursPerDay == 24
NumChoices == 5

\* MenuChoice (iota)
StartSession == 0
ViewStats == 1
ManageQuotes == 2
ToggleDisplayMode == 3
QuitApp == 4

\* tea.KeyMsg.String() values the user types; "x" stands for any key that no
\* handler names.
Keys == {"y", "n", "esc", "q", " ", "r", "ctrl+c", "enter", "x"}

Durations == 1..MaxMinutes

(***************************************************************************)
(* Messages.  Every message is a record of one shape; the fields a         *)
(* message type does not carry hold the defaults of NoMsg.                 *)
(***************************************************************************)
\* A nil *db.SessionStats; a loaded one is told by its CurrentStreak.
NilStats == -1

NoMsg ==
    [type |-> "none", key |-> "", Completed |-> FALSE, SubjectID |-> 0,
     Duration |-> 0, StartedAt |-> 0, choice |-> 0, Stats |-> NilStats,
     Quotes |-> <<>>, Quote |-> 0, Err |-> FALSE]

KeyMsg(k) == [NoMsg EXCEPT !.type = "KeyMsg", !.key = k]
tickMsg == [NoMsg EXCEPT !.type = "tickMsg"]
quoteTickMsg == [NoMsg EXCEPT !.type = "quoteTickMsg"]
QuitMsg == [NoMsg EXCEPT !.type = "QuitMsg"]
BackToMenuMsg == [NoMsg EXCEPT !.type = "BackToMenuMsg"]
SubjectsLoadedMsg == [NoMsg EXCEPT !.type = "SubjectsLoadedMsg"]
\* StatsLoadedMsg{Stats, Err}; Err tells whether an error is carried.
StatsLoadedMsg(stats, err) ==
    [NoMsg EXCEPT !.type = "StatsLoadedMsg", !.Stats = stats, !.Err = err]
MenuSelectionMsg(c) == [NoMsg EXCEPT !.type = "MenuSelectionMsg", !.choice = c]
SubjectSelectedMsg(s) == [NoMsg EXCEPT !.type = "SubjectSelectedMsg", !.SubjectID = s]

\* The TimerCompleteMsg literal built in TimerModel.Update from the timer m.
TimerCompleteMsg(completed, m) ==
    [NoMsg EXCEPT !.type = "TimerCompleteMsg",
                  !.Completed = completed,
                  !.SubjectID = m.subjectID,
                  !.Duration = m.totalSeconds \div SecondsPerMinute,
                  !.StartedAt = m.startedAt]

(***************************************************************************)
(* Commands: what a handler returns next to the model.                     *)
(***************************************************************************)
Cmd(n) == [name |-> n, msg |-> NoMsg]
NilCmd == Cmd("nil")
tickCmd == Cmd("tickCmd")
quoteTickCmd == Cmd("quoteTickCmd")
QuitCmd == Cmd("Quit")
LoadSubjectsCmd == Cmd("LoadSubjects")
LoadQuotesCmd == Cmd("LoadQuotes")
\* A command that calls db.GetSessionStats runs in its own goroutine; while
\* it runs it is in flight as a call, and its StatsLoadedMsg follows when
\* the call has returned.  The call of the ViewStats choice passes the
\* error on (Err tells whether it fails), the call made after a session is
\* saved drops it.
LoadStatsCall(ok) == [NoMsg EXCEPT !.type = "GetSessionStats", !.Err = ~ok]
ReloadStatsCall == [NoMsg EXCEPT !.type = "ReloadSessionStats"]
\* The command of the ViewStats choice.  ok tells whether the call succeeds.
LoadStatsCmd(ok) == [name |-> "GetSessionStats", msg |-> LoadStatsCall(ok)]
\* The command returned after a session is saved.
ReloadStatsCmd == [name |-> "GetSessionStats", msg |-> ReloadStatsCall]
\* func() tea.Msg { return msg }
Emit(msg) == [name |-> "emit", msg |-> msg]

\* TimerModel.Init
TimerInit == Cmd("Batch(tickCmd,quoteTickCmd)")

\* The messages a command puts in flight once the runtime has run it.
\* QuotesLoadedMsg only refreshes the quote list and is not followed here.
CmdMsgs(cmd) ==
    CASE cmd.name = "tickCmd" -> SetToBag({tickMsg})
      [] cmd.name = "quoteTickCmd" -> SetToBag({quoteTickMsg})
      [] cmd.name = "Batch(tickCmd,quoteTickCmd)" -> SetToBag({tickMsg, quoteTickMsg})
      [] cmd.name = "Quit" -> SetToBag({QuitMsg})
      [] cmd.name = "LoadSubjects" -> SetToBag({SubjectsLoadedMsg})
      [] cmd.name = "emit" -> SetToBag({cmd.msg})
      [] cmd.name = "GetSessionStats" -> SetToBag({cmd.msg})
      [] OTHER -> EmptyBag

(***************************************************************************)
(* TimerModel (src/ui/timer.go).                                           *)
(***************************************************************************)
\* The zero value of TimerModel, held by AppModel before the first session.
ZeroTimer ==
    [totalSeconds |-> 0, remainingSeconds |-> 0, running |-> FALSE,
     confirming |-> FALSE, subjectID |-> 0, startedAt |-> 0,
     content |-> "none"]

\* A lookup that leaves the displayed text as it is when it fails.
loadRandomContentKeepsOnFailure(m, ok) ==
    IF ok THEN [m EXCEPT !.content = "stored"] ELSE m

\* loadRandomContent (loadRandomQuote, loadRandomPoem): the lookup in the
\* database is made inside the call.  ok tells whether it yields a stored
\* quote or poem; if it fails or finds nothing the built-in default text is
\* displayed.  The displayed text is "stored" or "default" accordingly.
loadRandomContent(m, ok) ==
    [m EXCEPT !.content = IF ok THEN "stored" ELSE "default"]

\* A constructor that takes its argument for seconds when it sets the total.
NewTimerModelWithModeTotalInMinutes(minutes, subjectID, t, ok) ==
    loadRandomContent(
        [totalSeconds |-> minutes,
         remainingSeconds |-> minutes * SecondsPerMinute,
         running |-> TRUE,
         confirming |-> FALSE,
         subjectID |-> subjectID,
         startedAt |-> t,
         content |-> "none"], ok)

\* NewTimerModelWithMode(minutes, subjectID, ...) called at time t.
NewTimerModelWithMode(minutes, subjectID, t, ok) ==
    loadRandomContent(
        [totalSeconds |-> minutes * SecondsPerMinute,
         remainingSeconds |-> minutes * SecondsPerMinute,
         running |-> TRUE,
         confirming |-> FALSE,
         subjectID |-> subjectID,
         startedAt |-> t,
         content |-> "none"], ok)

\* TimerModel.Update, case tea.KeyMsg, once the timer is complete: any key
\* returns to the menu.
KeyWhenComplete(m) ==
    [m |-> m, cmd |-> Emit(TimerCompleteMsg(TRUE, m))]

\* A "y" that reports the session as completed.
KeyWhenConfirmingYesCompleted(m, key) ==
    CASE key = "y" -> [m |-> m, cmd |-> Emit(TimerCompleteMsg(TRUE, m))]
      [] key \in {"n", "esc"} ->
            [m |-> [m EXCEPT !.confirming = FALSE, !.running = TRUE],
             cmd |-> tickCmd]
      [] OTHER -> [m |-> m, cmd |-> NilCmd]

\* A "no" that closes the confirmation and leaves the countdown stopped.
KeyWhenConfirmingNoStaysStopped(m, key) ==
    CASE key = "y" -> [m |-> m, cmd |-> Emit(TimerCompleteMsg(FALSE, m))]
      [] key \in {"n", "esc"} ->
            [m |-> [m EXCEPT !.confirming = FALSE], cmd |-> NilCmd]
      [] OTHER -> [m |-> m, cmd |-> NilCmd]

\* TimerModel.Update, case tea.KeyMsg, if m.confirming
KeyWhenConfirming(m, key) ==
    CASE key = "y" -> [m |-> m, cmd |-> Emit(TimerCompleteMsg(FALSE, m))]
      [] key \in {"n", "esc"} ->
            [m |-> [m EXCEPT !.confirming = FALSE, !.running = TRUE],
             cmd |-> tickCmd]
      [] OTHER -> [m |-> m, cmd |-> NilCmd]

\* A resume that starts the countdown over.
KeyWhenActiveResumeResets(m, key) ==
    CASE key = "ctrl+c" -> [m |-> m, cmd |-> QuitCmd]
      [] key = "q" ->
            [m |-> [m EXCEPT !.confirming = TRUE, !.running = FALSE],
             cmd |-> NilCmd]
      [] key = " " ->
            IF ~m.running
            THEN [m |-> [m EXCEPT !.running = TRUE,
                                  !.remainingSeconds = m.totalSeconds],
                  cmd |-> tickCmd]
            ELSE [m |-> [m EXCEPT !.running = FALSE], cmd |-> NilCmd]
      [] key = "r" ->
            [m |-> [m EXCEPT !.remainingSeconds = m.totalSeconds,
                             !.running = TRUE],
             cmd |-> tickCmd]
      [] OTHER -> [m |-> m, cmd |-> NilCmd]

\* A "q" that opens the confirmation and leaves the countdown running.
KeyWhenActiveQuitKeepsRunning(m, key) ==
    CASE key = "ctrl+c" -> [m |-> m, cmd |-> QuitCmd]
      [] key = "q" -> [m |-> [m EXCEPT !.confirming = TRUE], cmd |-> NilCmd]
      [] key = " " ->
            [m |-> [m EXCEPT !.running = ~m.running],
             cmd |-> IF ~m.running THEN tickCmd ELSE NilCmd]
      [] key = "r" ->
            [m |-> [m EXCEPT !.remainingSeconds = m.totalSeconds,
                             !.running = TRUE],
             cmd |-> tickCmd]
      [] OTHER -> [m |-> m, cmd |-> NilCmd]

\* A switch whose default case pauses the timer.
KeyWhenActiveOtherPauses(m, key) ==
    CASE key = "ctrl+c" -> [m |-> m, cmd |-> QuitCmd]
      [] key = "q" ->
            [m |-> [m EXCEPT !.confirming = TRUE, !.running = FALSE],
             cmd |-> NilCmd]
      [] key = " " ->
            [m |-> [m EXCEPT !.running = ~m.running],
             cmd |-> IF ~m.running THEN tickCmd ELSE NilCmd]
      [] key = "r" ->
            [m |-> [m EXCEPT !.remainingSeconds = m.totalSeconds,
                             !.running = TRUE],
             cmd |-> tickCmd]
      [] OTHER -> [m |-> [m EXCEPT !.running = FALSE], cmd |-> NilCmd]

\* A reset that restores the duration and leaves a paused timer paused.
KeyWhenActiveResetKeepsPaused(m, key) ==
    CASE key = "ctrl+c" -> [m |-> m, cmd |-> QuitCmd]
      [] key = "q" ->
            [m |-> [m EXCEPT !.confirming = TRUE, !.running = FALSE],
             cmd |-> NilCmd]
      [] key = " " ->
            [m |-> [m EXCEPT !.running = ~m.running],
             cmd |-> IF ~m.running THEN tickCmd ELSE NilCmd]
      [] key = "r" ->
            [m |-> [m EXCEPT !.remainingSeconds = m.totalSeconds],
             cmd |-> IF m.running THEN tickCmd ELSE NilCmd]
      [] OTHER -> [m |-> m, cmd |-> NilCmd]

\* TimerModel.Update, case tea.KeyMsg, the switch on msg.String() reached
\* when the timer is neither complete nor confirming.
KeyWhenActive(m, key) ==
    CASE key = "ctrl+c" -> [m |-> m, cmd |-> QuitCmd]
      [] key = "q" ->
            [m |-> [m EXCEPT !.confirming = TRUE, !.running = FALSE],
             cmd |-> NilCmd]
      [] key = " " ->
            [m |-> [m EXCEPT !.running = ~m.running],
             cmd |-> IF ~m.running THEN tickCmd ELSE NilCmd]
      [] key = "r" ->
            [m |-> [m EXCEPT !.remainingSeconds = m.totalSeconds,
                             !.running = TRUE],
             cmd |-> tickCmd]
      [] OTHER -> [m |-> m, cmd |-> NilCmd]

\* A key handler without the check for a finished countdown.
TimerKeyMsgNoCompleteCheck(m, key) ==
    IF m.confirming THEN KeyWhenConfirming(m, key)
    ELSE KeyWhenActive(m, key)

\* TimerModel.Update, case tea.KeyMsg.
TimerKeyMsg(m, key) ==
    IF m.remainingSeconds <= 0 THEN KeyWhenComplete(m)
    ELSE IF m.confirming THEN KeyWhenConfirming(m, key)
    ELSE KeyWhenActive(m, key)

\* A tick that decrements whatever the state of the timer.
TimerTickMsgNoGuard(m) ==
    IF m.remainingSeconds - 1 <= 0
    THEN [m |-> [m EXCEPT !.remainingSeconds = m.remainingSeconds - 1,
                          !.running = FALSE],
          cmd |-> Emit(TimerCompleteMsg(TRUE, m))]
    ELSE [m |-> [m EXCEPT !.remainingSeconds = m.remainingSeconds - 1],
          cmd |-> tickCmd]

\* A tick that treats zero like any other value: no completion.
TimerTickMsgNoCompletion(m) ==
    IF m.running /\ m.remainingSeconds > 0
    THEN [m |-> [m EXCEPT !.remainingSeconds = m.remainingSeconds - 1],
          cmd |-> tickCmd]
    ELSE [m |-> m, cmd |-> NilCmd]

\* A tick that does not schedule its successor.
TimerTickMsgNoReschedule(m) ==
    IF m.running /\ m.remainingSeconds > 0
    THEN IF m.remainingSeconds - 1 <= 0
         THEN [m |-> [m EXCEPT !.remainingSeconds = m.remainingSeconds - 1,
                               !.running = FALSE],
               cmd |-> Emit(TimerCompleteMsg(TRUE, m))]
         ELSE [m |-> [m EXCEPT !.remainingSeconds = m.remainingSeconds - 1],
               cmd |-> NilCmd]
    ELSE [m |-> m, cmd |-> NilCmd]

\* A tick that does not look at m.running.
TimerTickMsgIgnoresRunning(m) ==
    IF m.remainingSeconds > 0
    THEN IF m.remainingSeconds - 1 <= 0
         THEN [m |-> [m EXCEPT !.remainingSeconds = m.remainingSeconds - 1,
                               !.running = FALSE],
               cmd |-> Emit(TimerCompleteMsg(TRUE, m))]
         ELSE [m |-> [m EXCEPT !.remainingSeconds = m.remainingSeconds - 1],
               cmd |-> tickCmd]
    ELSE [m |-> m, cmd |-> NilCmd]

\* TimerModel.Update, case tickMsg.
TimerTickMsg(m) ==
    IF m.running /\ m.remainingSeconds > 0
    THEN IF m.remainingSeconds - 1 <= 0
         THEN [m |-> [m EXCEPT !.remainingSeconds = m.remainingSeconds - 1,
                               !.running = FALSE],
               cmd |-> Emit(TimerCompleteMsg(TRUE, m))]
         ELSE [m |-> [m EXCEPT !.remainingSeconds = m.remainingSeconds - 1],
               cmd |-> tickCmd]
    ELSE [m |-> m, cmd |-> NilCmd]

\* A rotation tick that does not look at m.running.
TimerQuoteTickMsgIgnoresRunning(m, ok) ==
    [m |-> loadRandomContent(m, ok), cmd |-> quoteTickCmd]

\* TimerModel.Update, case quoteTickMsg.
TimerQuoteTickMsg(m, ok) ==
    IF m.running
    THEN [m |-> loadRandomContent(m, ok), cmd |-> quoteTickCmd]
    ELSE [m |-> m, cmd |-> NilCmd]

\* TimerModel.Update
TimerUpdate(m, msg, ok) ==
    CASE msg.type = "KeyMsg" -> TimerKeyMsg(m, msg.key)
      [] msg.type = "tickMsg" -> TimerTickMsg(m)
      [] msg.type = "quoteTickMsg" -> TimerQuoteTickMsg(m, ok)
      [] OTHER -> [m |-> m, cmd |-> NilCmd]

(***************************************************************************)
(* MenuModel (src/ui/timer.go, second file of the listing).                *)
(***************************************************************************)
NewMenuModel == [cursor |-> 0, streak |-> 0, displayMode |-> "Quotes"]

\* MenuModel.Update
MenuUpdate(m, msg) ==
    IF msg.type # "KeyMsg" THEN [m |-> m, cmd |-> NilCmd]
    ELSE CASE msg.key = "up" ->
                [m |-> [m EXCEPT !.cursor = IF m.cursor > 0 THEN m.cursor - 1 ELSE m.cursor],
                 cmd |-> NilCmd]
           [] msg.key = "down" ->
                [m |-> [m EXCEPT !.cursor = IF m.cursor < NumChoices - 1
                                              THEN m.cursor + 1 ELSE m.cursor],
                 cmd |-> NilCmd]
           [] msg.key \in {"enter", " "} ->
                IF m.cursor = ToggleDisplayMode
                THEN [m |-> [m EXCEPT !.displayMode = IF m.displayMode = "Quotes"
                                                      THEN "Poems" ELSE "Quotes"],
                      cmd |-> NilCmd]
                ELSE [m |-> m, cmd |-> Emit(MenuSelectionMsg(m.cursor))]
           [] msg.key \in {"q", "ctrl+c"} -> [m |-> m, cmd |-> QuitCmd]
           [] OTHER -> [m |-> m, cmd |-> NilCmd]

(***************************************************************************)
(* SubjectSelectModel (src/ui/subject_select.go).  The add-subject form    *)
(* is outside the key alphabet; subjects holds the number of subjects      *)
(* loaded, which are numbered 1..subjects.                                 *)
(***************************************************************************)
NewSubjectSelectModel == [subjects |-> 0, cursor |-> 0]

\* SubjectSelectModel.Update
SubjectSelectUpdate(m, msg) ==
    CASE msg.type = "SubjectsLoadedMsg" ->
            [m |-> [m EXCEPT !.subjects = NumSubjects], cmd |-> NilCmd]
      [] msg.type = "KeyMsg" ->
            CASE msg.key \in {"esc", "q"} -> [m |-> m, cmd |-> Emit(BackToMenuMsg)]
              [] msg.key = "up" ->
                    [m |-> [m EXCEPT !.cursor = IF m.cursor > 0 THEN m.cursor - 1 ELSE m.cursor],
                     cmd |-> NilCmd]
              [] msg.key = "down" ->
                    [m |-> [m EXCEPT !.cursor = IF m.cursor < m.subjects - 1
                                                  THEN m.cursor + 1 ELSE m.cursor],
                     cmd |-> NilCmd]
              [] msg.key \in {"enter", " "} ->
                    IF m.subjects > 0 /\ m.cursor < m.subjects
                    THEN [m |-> m, cmd |-> Emit(SubjectSelectedMsg(m.cursor + 1))]
                    ELSE [m |-> m, cmd |-> NilCmd]
              [] OTHER -> [m |-> m, cmd |-> NilCmd]
      [] OTHER -> [m |-> m, cmd |-> NilCmd]

(***************************************************************************)
(* QuotesModel (src/ui/quotes.go): the keys that leave the screen.         *)
(***************************************************************************)
\* QuotesModel.Update, case tea.KeyMsg outside the add form
QuotesUpdate(msg) ==
    IF msg.type = "KeyMsg" /\ msg.key \in {"esc", "q"}
    THEN Emit(BackToMenuMsg)
    ELSE NilCmd

(***************************************************************************)
(* QuotesModel in full (src/ui/quotes.go).  A quote is told by its ID, the *)
(* list of quotes is a sequence of IDs and the cursor counts from 0.  Of   *)
(* the add form the model keeps the focus and whether the quote text is    *)
(* empty; the source is optional and its text is not followed.             *)
(***************************************************************************)
QuoteKeys ==
    {"esc", "q", "up", "k", "down", "j", "a", "d", "delete", "tab", "enter",
     "x"}

\* The keys that put a character into the focused text input.
Printable == {"q", "k", "j", "a", "d", "x"}

QuotesLoadedMsg(quotes, err) ==
    [NoMsg EXCEPT !.type = "QuotesLoadedMsg", !.Quotes = quotes, !.Err = err]
QuoteAddedMsg(quote, err) ==
    [NoMsg EXCEPT !.type = "QuoteAddedMsg", !.Quote = quote, !.Err = err]
QuoteDeletedMsg(err) == [NoMsg EXCEPT !.type = "QuoteDeletedMsg", !.Err = err]

\* The calls of the quotes collection that the commands of QuotesModel
\* make; each is in flight until it returns.
GetAllQuotesCall == [NoMsg EXCEPT !.type = "GetAllQuotes"]
AddQuoteCall == [NoMsg EXCEPT !.type = "AddQuote"]
DeleteQuoteCall(id) == [NoMsg EXCEPT !.type = "DeleteQuote", !.Quote = id]

AddQuoteCmd == [name |-> "AddQuote", msg |-> AddQuoteCall]
DeleteQuoteCmd(id) == [name |-> "DeleteQuote", msg |-> DeleteQuoteCall(id)]
BlinkCmd == Cmd("Blink")

\* What the runtime puts in flight for a command of QuotesModel.  The blink
\* of the text input reaches no case of Update and is not followed.
QuotesCmdMsgs(cmd) ==
    CASE cmd.name = "LoadQuotes" -> SetToBag({GetAllQuotesCall})
      [] cmd.name \in {"AddQuote", "DeleteQuote"} -> SetToBag({cmd.msg})
      [] OTHER -> CmdMsgs(cmd)

NewQuotesModel ==
    [quotes |-> <<>>, cursor |-> 0, adding |-> FALSE, inputFocus |-> 0,
     text |-> FALSE, err |-> FALSE]

\* QuotesModel.handleAddingInput
handleAddingInput(m, key) ==
    CASE key = "esc" ->
            [m |-> [m EXCEPT !.adding = FALSE, !.text = FALSE],
             cmd |-> NilCmd]
      [] key = "tab" ->
            [m |-> [m EXCEPT !.inputFocus = 1 - m.inputFocus], cmd |-> NilCmd]
      [] key = "enter" ->
            IF m.inputFocus = 0
            THEN [m |-> [m EXCEPT !.inputFocus = 1], cmd |-> NilCmd]
            ELSE IF ~m.text THEN [m |-> m, cmd |-> NilCmd]
            ELSE [m |-> m, cmd |-> AddQuoteCmd]
      [] OTHER ->
            [m |-> IF m.inputFocus = 0 /\ key \in Printable
                   THEN [m EXCEPT !.text = TRUE] ELSE m,
             cmd |-> NilCmd]

\* QuotesModel.deleteCurrentQuote
deleteCurrentQuote(m) ==
    IF m.cursor >= Len(m.quotes) THEN NilCmd
    ELSE DeleteQuoteCmd(m.quotes[m.cursor + 1])

\* QuotesModel.Update, case tea.KeyMsg outside the add form
QuotesKeyMsg(m, key) ==
    CASE key \in {"esc", "q"} -> [m |-> m, cmd |-> Emit(BackToMenuMsg)]
      [] key \in {"up", "k"} ->
            [m |-> IF m.cursor > 0 THEN [m EXCEPT !.cursor = m.cursor - 1]
                   ELSE m,
             cmd |-> NilCmd]
      [] key \in {"down", "j"} ->
            [m |-> IF m.cursor < Len(m.quotes) - 1
                   THEN [m EXCEPT !.cursor = m.cursor + 1] ELSE m,
             cmd |-> NilCmd]
      [] key = "a" ->
            [m |-> [m EXCEPT !.adding = TRUE, !.inputFocus = 0],
             cmd |-> BlinkCmd]
      [] key \in {"d", "delete"} ->
            [m |-> m,
             cmd |-> IF Len(m.quotes) > 0 THEN deleteCurrentQuote(m)
                     ELSE NilCmd]
      [] OTHER -> [m |-> m, cmd |-> NilCmd]

\* QuotesModel.Update
QuotesModelUpdate(m, msg) ==
    CASE msg.type = "QuotesLoadedMsg" ->
            [m |-> IF msg.Err THEN [m EXCEPT !.err = TRUE]
                   ELSE [m EXCEPT !.quotes = msg.Quotes],
             cmd |-> NilCmd]
      [] msg.type = "QuoteAddedMsg" ->
            [m |-> IF msg.Err THEN [m EXCEPT !.err = TRUE]
                   ELSE [m EXCEPT !.quotes = Append(m.quotes, msg.Quote),
                                  !.adding = FALSE, !.text = FALSE],
             cmd |-> NilCmd]
      [] msg.type = "QuoteDeletedMsg" ->
            [m |-> IF msg.Err THEN [m EXCEPT !.err = TRUE] ELSE m,
             cmd |-> LoadQuotesCmd]
      [] msg.type = "KeyMsg" ->
            IF m.adding THEN handleAddingInput(m, msg.key)
            ELSE QuotesKeyMsg(m, msg.key)
      [] OTHER -> [m |-> m, cmd |-> NilCmd]

(***************************************************************************)
(* The quotes collection (db/quotes.go): the IDs of its documents in the   *)
(* order Find returns them, and the next ID InsertOne gives out.           *)
(***************************************************************************)
\* A collection of n quotes.
QuotesStored(n) == [docs |-> [i \in 1..n |-> i], next |-> n + 1]

\* The sequence q without the entries equal to id.
RECURSIVE Without(_, _)
Without(q, id) ==
    IF q = <<>> THEN <<>>
    ELSE IF Head(q) = id THEN Without(Tail(q), id)
    ELSE <<Head(q)>> \o Without(Tail(q), id)

\* A call of the quotes collection returns: the collection after the call
\* and the message its command sends.  ok tells whether the call succeeds.
QuotesReturned(call, db, ok) ==
    CASE call.type = "GetAllQuotes" ->
            [db |-> db,
             msg |-> IF ok THEN QuotesLoadedMsg(db.docs, FALSE)
                     ELSE QuotesLoadedMsg(<<>>, TRUE)]
      [] call.type = "AddQuote" ->
            IF ok
            THEN [db |-> [docs |-> Append(db.docs, db.next),
                          next |-> db.next + 1],
                  msg |-> QuoteAddedMsg(db.next, FALSE)]
            ELSE [db |-> db, msg |-> QuoteAddedMsg(0, TRUE)]
      [] call.type = "DeleteQuote" ->
            IF ok
            THEN [db |-> [db EXCEPT !.docs = Without(db.docs, call.Quote)],
                  msg |-> QuoteDeletedMsg(FALSE)]
            ELSE [db |-> db, msg |-> QuoteDeletedMsg(TRUE)]

(***************************************************************************)
(* The connection (db/mongo.go).  A client is told by the number of the    *)
(* call of Connect that made it; 0 is nil.                                 *)
(***************************************************************************)
\* What os.Getenv("BEOT_MONGODB_URI") may return.
Uris == {"", "mongodb://host"}

\* A getMongoURI that falls back on a local server.
getMongoURIWithDefault(env) ==
    IF env = "" THEN [uri |-> "mongodb://localhost", err |-> FALSE]
    ELSE [uri |-> env, err |-> FALSE]

\* getMongoURI returns the MongoDB URI from environment variable
getMongoURI(env) ==
    IF env = "" THEN [uri |-> "", err |-> TRUE]
    ELSE [uri |-> env, err |-> FALSE]

\* The package before any call of Connect: Client and Database are nil.
\* pc is the place the running call of Connect has reached, client its
\* local variable, err what the last call returned; calls, attempts and
\* pings count the calls of Connect, mongo.Connect and Ping, verified holds
\* the clients whose Ping succeeded and closed those that Disconnect closed.
NotConnected(env) ==
    [env |-> env, pc |-> "idle", client |-> 0, Client |-> 0, Database |-> 0,
     err |-> "none", calls |-> 0, attempts |-> 0, pings |-> 0,
     verified |-> {}, closed |-> {}]

\* Connect up to the call of mongo.Connect: getMongoURI and its error check.
ConnectBegin(c) ==
    IF getMongoURI(c.env).err
    THEN [c EXCEPT !.calls = c.calls + 1, !.err = "uri"]
    ELSE [c EXCEPT !.calls = c.calls + 1, !.pc = "connect"]

\* Connect, the call of mongo.Connect and its error check.
ConnectDial(c, ok) ==
    IF ok
    THEN [c EXCEPT !.attempts = c.attempts + 1, !.client = c.calls,
                   !.pc = "ping"]
    ELSE [c EXCEPT !.attempts = c.attempts + 1, !.err = "connect",
                   !.pc = "idle"]

\* Connect from the Ping on: the error check, the assignments and return nil.
ConnectPing(c, ok) ==
    IF ok
    THEN [c EXCEPT !.pings = c.pings + 1,
                   !.verified = c.verified \cup {c.client},
                   !.Client = c.client, !.Database = c.client,
                   !.err = "none", !.pc = "idle"]
    ELSE [c EXCEPT !.pings = c.pings + 1, !.err = "ping", !.pc = "idle"]

\* Disconnect closes the MongoDB connection
Disconnect(c) ==
    IF c.Client # 0 THEN [c EXCEPT !.closed = c.closed \cup {c.Client}]
    ELSE c

(***************************************************************************)
(* calculateStreaks (db/sessions.go).  Time is counted in hours since      *)
(* midnight UTC of day 0.  CompletedAt is decoded as a UTC time, so the    *)
(* calendar day of a session is its UTC day.                               *)
(***************************************************************************)
\* A format that rounds the instant to the nearest midnight.
DayKeyRoundsUp(t) == (t + 1) \div HoursPerDay

\* s.CompletedAt.Format("2006-01-02"): the text names the calendar day of
\* the instant t; the hour of the day is dropped.
DayKey(t) == t \div HoursPerDay

\* time.Parse("2006-01-02", dayStr): midnight UTC of the day named.
ParseDay(k) == k * HoursPerDay

\* A truncation that keeps the hour of the day.
TruncateKeepsHours(t) == t

\* t.Truncate(24 * time.Hour): down to a multiple of 24 hours of absolute
\* time, which is a midnight UTC whatever the location of t.
Truncate(t) == t - (t % HoursPerDay)

\* today.AddDate(0, 0, -1): the same wall-clock time on the previous
\* calendar day in the location of today, which time.Now() makes the local
\* zone.  shift is the number of hours by which the UTC offset of the local
\* zone at that time differs from its offset at today: 0 unless a
\* daylight-saving transition lies in between.
AddDateMinusOneDay(today, shift) == today - HoursPerDay + shift

\* prev.Sub(curr).Hours() / 24
DiffDays(prev, curr) == <<prev - curr, HoursPerDay>>

\* diff == 1
IsOneDay(diff) == diff[1] = diff[2]

\* The map days: its keys are the day keys of the sessions, each once.
UniqueDays(S) == {DayKey(t) : t \in S}

\* sortedDays[i], sortedDays[j] = sortedDays[j], sortedDays[i]
Swap(a, i, j) == [a EXCEPT ![i] = a[j], ![j] = a[i]]

\* The inner loop of the sort: for j := i + 1; j < len(sortedDays); j++
RECURSIVE SortInner(_, _, _)
SortInner(a, i, j) ==
    IF j > Len(a) THEN a
    ELSE SortInner(IF a[j] > a[i] THEN Swap(a, i, j) ELSE a, i, j + 1)

\* The outer loop of the sort: for i := 0; i < len(sortedDays)-1; i++
RECURSIVE SortOuter(_, _)
SortOuter(a, i) ==
    IF i > Len(a) - 1 THEN a
    ELSE SortOuter(SortInner(a, i, i + 1), i + 1)

\* A sort that makes one pass: the most recent day comes first and the
\* other days stay where the pass left them.
SortDescendingOnePass(a) == IF Len(a) > 1 THEN SortInner(a, 1, 2) ELSE a

\* Sort descending (most recent first)
SortDescending(a) == SortOuter(a, 1)

\* A loop that counts one day and looks no further.
RECURSIVE CurrentLoopNoCount(_, _, _)
CurrentLoopNoCount(a, i, currentStreak) == currentStreak

\* A loop that passes over a gap and goes on counting behind it.
RECURSIVE CurrentLoopSkipsGaps(_, _, _)
CurrentLoopSkipsGaps(a, i, currentStreak) ==
    IF i > Len(a) THEN currentStreak
    ELSE IF IsOneDay(DiffDays(Truncate(a[i - 1]), Truncate(a[i])))
         THEN CurrentLoopSkipsGaps(a, i + 1, currentStreak + 1)
         ELSE CurrentLoopSkipsGaps(a, i + 1, currentStreak)

\* The loop of the current streak: for i := 1; i < len(sortedDays); i++,
\* left at the first pair of days that are not one day apart.
RECURSIVE CurrentLoop(_, _, _)
CurrentLoop(a, i, currentStreak) ==
    IF i > Len(a) THEN currentStreak
    ELSE IF IsOneDay(DiffDays(Truncate(a[i - 1]), Truncate(a[i])))
         THEN CurrentLoop(a, i + 1, currentStreak + 1)
         ELSE currentStreak

\* A current streak that counts from the most recent day however old it is.
currentStreakNoRecencyCheck(sortedDays, today, yesterday) ==
    IF Len(sortedDays) > 0 THEN CurrentLoop(sortedDays, 2, 1) ELSE 0

\* Calculate current streak (from today or yesterday)
currentStreak(sortedDays, today, yesterday) ==
    IF Len(sortedDays) > 0
    THEN IF \/ Truncate(sortedDays[1]) = today
            \/ Truncate(sortedDays[1]) = yesterday
         THEN CurrentLoop(sortedDays, 2, 1)
         ELSE 0
    ELSE 0

\* A loop that forgets the run it is in when the days run out.
RECURSIVE LongestLoopDropsFinalRun(_, _, _, _)
LongestLoopDropsFinalRun(a, i, streak, longestStreak) ==
    IF i > Len(a) THEN longestStreak
    ELSE IF IsOneDay(DiffDays(Truncate(a[i - 1]), Truncate(a[i])))
         THEN LongestLoopDropsFinalRun(a, i + 1, streak + 1, longestStreak)
         ELSE LongestLoopDropsFinalRun(a, i + 1, 1,
                  IF streak > longestStreak THEN streak ELSE longestStreak)

\* The loop of the longest streak and the comparison that follows it.
RECURSIVE LongestLoop(_, _, _, _)
LongestLoop(a, i, streak, longestStreak) ==
    IF i > Len(a)
    THEN IF streak > longestStreak THEN streak ELSE longestStreak
    ELSE IF IsOneDay(DiffDays(Truncate(a[i - 1]), Truncate(a[i])))
         THEN LongestLoop(a, i + 1, streak + 1, longestStreak)
         ELSE LongestLoop(a, i + 1, 1,
                  IF streak > longestStreak THEN streak ELSE longestStreak)

\* The longest-streak loop started with a run of zero days.
longestStreakStartsAtZero(sortedDays) ==
    IF Len(sortedDays) > 0 THEN LongestLoop(sortedDays, 2, 0, 0) ELSE 0

\* Calculate longest streak
longestStreak(sortedDays) ==
    IF Len(sortedDays) > 0 THEN LongestLoop(sortedDays, 2, 1, 0) ELSE 0

\* A calculator that opens the longest run before it looks at the sessions.
calculateStreaksEmptyCountsOne(S, order, t, shift, ok) ==
    IF ~ok THEN [current |-> 0, longest |-> 0]
    ELSE LET sortedDays == SortDescending([i \in 1..Len(order) |-> ParseDay(order[i])])
             today == Truncate(t)
             yesterday == AddDateMinusOneDay(today, shift)
         IN  [current |-> currentStreak(sortedDays, today, yesterday),
              longest |-> LongestLoop(sortedDays, 2, 1, 0)]

\* calculateStreaks.  S holds the CompletedAt of the completed sessions in
\* the collection (sessions completed at the same instant have one day key
\* and count as one), order is the order in which the range over the map
\* days yields its keys, t is time.Now(), ok tells whether the query
\* succeeds.
calculateStreaks(S, order, t, shift, ok) ==
    IF ~ok THEN [current |-> 0, longest |-> 0]
    ELSE IF S = {} THEN [current |-> 0, longest |-> 0]
    ELSE LET sortedDays == SortDescending([i \in 1..Len(order) |-> ParseDay(order[i])])
             today == Truncate(t)
             yesterday == AddDateMinusOneDay(today, shift)
         IN  [current |-> currentStreak(sortedDays, today, yesterday),
              longest |-> longestStreak(sortedDays)]

\* The order that yields the days of the set D from the earliest on.
RECURSIVE Earliest(_)
Earliest(D) ==
    IF D = {} THEN <<>>
    ELSE LET least == CHOOSE d \in D : \A e \in D : d <= e
         IN  <<least>> \o Earliest(D \ {least})

\* db.GetSessionStats on the collection db read at the instant t: nil if
\* one of its own queries fails (ok is false), else the statistics, told by
\* their CurrentStreak; streakOk tells whether the query of calculateStreaks
\* succeeds.  Every session of db was completed at t: a run of the
\* application lasts minutes.
GetSessionStats(db, t, shift, ok, streakOk) ==
    IF ~ok THEN NilStats
    ELSE LET S == {t : session \in
                        {e \in BagToSet(db) : e.Status = "completed"}}
         IN  calculateStreaks(S, Earliest(UniqueDays(S)), t, shift,
                              streakOk).current

\* The StatsLoadedMsg that a call of db.GetSessionStats in flight yields
\* when it returns, reading the collection db at the instant t.
StatsReturned(call, db, t, shift, ok, streakOk) ==
    IF call.type = "ReloadSessionStats"
    THEN StatsLoadedMsg(GetSessionStats(db, t, shift, ok, streakOk), FALSE)
    ELSE IF call.Err THEN StatsLoadedMsg(NilStats, TRUE)
    ELSE StatsLoadedMsg(GetSessionStats(db, t, shift, TRUE, streakOk), FALSE)

(***************************************************************************)
(* The tutorial's streak package (internal/streak/calculator.go): both     *)
(* functions take the days most recent first, duplicates allowed.          *)
(***************************************************************************)

\* The loop of Calculate over days[i..]: a day equal to the expected one
\* counts and moves the expectation one calendar day back, an earlier day
\* ends the count, a later day (a duplicate) is skipped.  The first step
\* back from today crosses the zone's offset change, later ones do not.
RECURSIVE CalculateLoop(_, _, _, _, _)
CalculateLoop(days, i, streak, expected, shift) ==
    IF i > Len(days) THEN streak
    ELSE IF Truncate(days[i]) = expected
         THEN CalculateLoop(days, i + 1, streak + 1,
                            AddDateMinusOneDay(expected, shift), 0)
         ELSE IF Truncate(days[i]) < expected
              THEN streak
              ELSE CalculateLoop(days, i + 1, streak, expected, shift)

\* Calculate returns the current streak based on days with completed sessions
Calculate(days, t, shift) ==
    IF Len(days) = 0 THEN 0
    ELSE CalculateLoop(days, 1, 0, Truncate(t), shift)

\* The loop of LongestStreak over the pairs (days[i-1], days[i]) and the
\* comparison after it.
RECURSIVE LongestStreakLoop(_, _, _, _)
LongestStreakLoop(days, i, current, longest) ==
    IF i > Len(days)
    THEN IF current > longest THEN current ELSE longest
    ELSE IF Truncate(days[i - 1]) = Truncate(days[i]) + HoursPerDay
         THEN LongestStreakLoop(days, i + 1, current + 1, longest)
         ELSE IF Truncate(days[i - 1]) # Truncate(days[i])
              THEN LongestStreakLoop(days, i + 1, 1,
                       IF current > longest THEN current ELSE longest)
              ELSE LongestStreakLoop(days, i + 1, current, longest)

\* LongestStreak calculates the longest streak from a list of dates
LongestStreak(days) ==
    IF Len(days) = 0 THEN 0
    ELSE LongestStreakLoop(days, 2, 1, 0)

(***************************************************************************)
(* The standalone timer (src/main.go): a program of its own with one       *)
(* model, run as tea.NewProgram(newModel(1)).                              *)
(***************************************************************************)
\* newModel
newModel(minutes) ==
    [totalSeconds |-> minutes * SecondsPerMinute,
     remainingSeconds |-> minutes * SecondsPerMinute,
     running |-> FALSE]

\* model.Init.  The method has a value receiver: m.running = true is set on
\* the copy of the model that the call receives and is lost when it
\* returns, so the model of the program is as newModel made it; only the
\* command is returned.  The message of tea.ClearScreen reaches no case of
\* Update and is left out.
mainInit(m) ==
    [m |-> m, cmd |-> tickCmd]

\* model.Update
mainUpdate(m, msg) ==
    CASE msg.type = "KeyMsg" ->
            CASE msg.key \in {"q", "ctrl+c"} -> [m |-> m, cmd |-> QuitCmd]
              [] msg.key = " " ->
                    [m |-> [m EXCEPT !.running = ~m.running],
                     cmd |-> IF ~m.running THEN tickCmd ELSE NilCmd]
              [] msg.key = "r" ->
                    [m |-> [m EXCEPT !.remainingSeconds = m.totalSeconds,
                                     !.running = TRUE],
                     cmd |-> tickCmd]
              [] OTHER -> [m |-> m, cmd |-> NilCmd]
      [] msg.type = "tickMsg" ->
            IF m.running /\ m.remainingSeconds > 0
            THEN IF m.remainingSeconds - 1 <= 0
                 THEN [m |-> [m EXCEPT !.remainingSeconds = m.remainingSeconds - 1,
                                       !.running = FALSE],
                       cmd |-> NilCmd]
                 ELSE [m |-> [m EXCEPT !.remainingSeconds = m.remainingSeconds - 1],
                       cmd |-> tickCmd]
            ELSE [m |-> m, cmd |-> NilCmd]
      [] OTHER -> [m |-> m, cmd |-> NilCmd]

(***************************************************************************)
(* State of the program.                                                   *)
(***************************************************************************)
VARIABLES
    currentView,    \* AppModel.currentView
    timer,          \* AppModel.timer
    menu,           \* AppModel.menu
    subjectSelect,  \* AppModel.subjectSelect
    msgs,           \* bag of messages in flight (results of commands)
    sessions,       \* the sessions collection: a bag of Session documents
    now,            \* time.Now(), a logical clock
    quit,           \* the program has processed tea.Quit
    statsErr,       \* AppModel.statsErr holds an error
    trail,          \* history: the pause, or pause and resume, just performed
    completedAt,    \* CompletedAt of the completed sessions, in hours
    clock,          \* time.Now() as calculateStreaks reads it, in hours
    dstShift,       \* hours the local zone's UTC offset changed since yesterday
    stats,          \* history: the streaks last calculated for completedAt
    model,          \* the model of the standalone timer of src/main.go
    quotes,         \* AppModel.quotes
    quotesCollection, \* the quotes collection
    conn            \* the connection: db.Client, db.Database, Connect

appVars == <<currentView, timer, menu, subjectSelect, msgs, sessions, now,
             quit, statsErr, trail>>

streakVars == <<completedAt, clock, dstShift, stats>>

otherVars == <<quotes, quotesCollection, conn>>

vars == <<currentView, timer, menu, subjectSelect, msgs, sessions, now, quit,
          statsErr, trail, completedAt, clock, dstShift, stats, model,
          quotes, quotesCollection, conn>>

\* No streak has been calculated for the sessions stored.  stats.day is the
\* day of the call, stats.failed tells whether its query failed, and
\* stats.repeat whether the call before it was made on the same day, for the
\* same sessions, with the same outcome of the query.
NoStats == [called |-> FALSE, failed |-> FALSE, day |-> -1, current |-> 0,
            longest |-> 0, repeat |-> FALSE]

\* The streak calculator is left aside: the application is followed without
\* the completion times of its sessions.
NoCalendar ==
    /\ completedAt = {}
    /\ clock = 0
    /\ dstShift = 0
    /\ stats = NoStats

\* The standalone timer is a separate program and is not running.
NoStandalone == model = newModel(0)

\* The quotes screen has not been opened.
NoQuotes ==
    /\ quotes = NewQuotesModel
    /\ quotesCollection = QuotesStored(0)

\* The connection is left aside.
NoConnect == conn = NotConnected("")

(***************************************************************************)
(* The states of the session timer, as TimerModel.View tells them apart.   *)
(***************************************************************************)
Complete == timer.remainingSeconds <= 0
ConfirmingAbandon == ~Complete /\ timer.confirming
Running == ~Complete /\ ~timer.confirming /\ timer.running
Paused == ~Complete /\ ~timer.confirming /\ ~timer.running

\* trail.paused is the remaining time at the pause input that was the last
\* message handled; trail.resumed is the remaining time at a pause input
\* that was followed at once by the resume input, which was the last
\* message handled; trail.declined is the remaining time at the "no" input
\* to the abandon confirmation that was the last message handled.  These
\* are -1 otherwise.  trail.reset is the remaining time (-1 otherwise) and
\* trail.resetFrom the state ("none" otherwise) at the reset input that was
\* the last message handled.
NoTrail ==
    [paused |-> -1, resumed |-> -1, declined |-> -1, reset |-> -1,
     resetFrom |-> "none"]

\* The name of the state the timer is in.
StateName ==
    IF Complete THEN "Complete"
    ELSE IF timer.confirming THEN "ConfirmingAbandon"
    ELSE IF timer.running THEN "Running" ELSE "Paused"

TrailAfter(msg) ==
    IF currentView = "Timer" /\ msg.type = "KeyMsg"
    THEN CASE msg.key = " " /\ Running ->
                [NoTrail EXCEPT !.paused = timer.remainingSeconds]
           [] msg.key = " " /\ Paused /\ trail.paused >= 0 ->
                [NoTrail EXCEPT !.resumed = trail.paused]
           [] msg.key = "r" /\ (Running \/ Paused) ->
                [NoTrail EXCEPT !.reset = timer.remainingSeconds,
                                !.resetFrom = StateName]
           [] msg.key \in {"n", "esc"} /\ ConfirmingAbandon ->
                [NoTrail EXCEPT !.declined = timer.remainingSeconds]
           [] OTHER -> NoTrail
    ELSE NoTrail

\* Number of messages in the bag b whose type is in the set T.
TypeCount(T, b) ==
    LET S == {e \in BagToSet(b) : e.type \in T}
    IN  BagCardinality([e \in S |-> b[e]])

PendingTicks == CopiesIn(tickMsg, msgs)
PendingQuoteTicks == CopiesIn(quoteTickMsg, msgs)
PendingComplete == TypeCount({"TimerCompleteMsg"}, msgs)

NavTypes ==
    {"MenuSelectionMsg", "SubjectSelectedMsg", "BackToMenuMsg",
     "SubjectsLoadedMsg", "QuitMsg"}

\* The bag b of messages in flight stays within the bounds of the model.
WithinCaps(b) ==
    /\ CopiesIn(tickMsg, b) <= MaxTicks
    /\ TypeCount({"TimerCompleteMsg"}, b) <= MaxComplete
    /\ TypeCount({"StatsLoadedMsg", "GetSessionStats", "ReloadSessionStats"},
                 b) <= MaxComplete
    /\ TypeCount(NavTypes, b) <= MaxNav

\* db.CreateSession as called from AppModel.Update: the collection db after
\* the call.  ok tells whether InsertOne succeeds; if it fails or times out
\* the collection is as before and the call returns an error.
CreateSession(db, msg, ok) ==
    IF ok
    THEN db (+) SetToBag({[Status |-> IF msg.Completed THEN "completed"
                                      ELSE "abandoned",
                           SubjectID |-> msg.SubjectID,
                           Duration |-> msg.Duration,
                           StartedAt |-> msg.StartedAt]})
    ELSE db

\* The handlers of AppModel take the application a (the fields of AppModel,
\* the sessions collection and the clock) and yield the application after
\* the call together with the command returned.
App ==
    [currentView |-> currentView, timer |-> timer, menu |-> menu,
     subjectSelect |-> subjectSelect, sessions |-> sessions, now |-> now,
     statsErr |-> statsErr]

\* AppModel.Update, the second switch: the message goes to the model of the
\* active view, which is replaced.
Route(a, msg, ok) ==
    CASE a.currentView = "Menu" ->
            LET r == MenuUpdate(a.menu, msg)
            IN  [a |-> [a EXCEPT !.menu = r.m], cmd |-> r.cmd]
      [] a.currentView = "SubjectSelect" ->
            LET r == SubjectSelectUpdate(a.subjectSelect, msg)
            IN  [a |-> [a EXCEPT !.subjectSelect = r.m], cmd |-> r.cmd]
      [] a.currentView = "Timer" ->
            LET r == TimerUpdate(a.timer, msg, ok)
            IN  [a |-> [a EXCEPT !.timer = r.m], cmd |-> r.cmd]
      [] a.currentView = "Stats" ->
            [a |-> IF msg.type = "KeyMsg" /\ msg.key \in {"esc", "q"}
                   THEN [a EXCEPT !.currentView = "Menu"] ELSE a,
             cmd |-> NilCmd]
      [] a.currentView = "Quotes" ->
            [a |-> a, cmd |-> QuotesUpdate(msg)]

\* AppModel.Update, case MenuSelectionMsg
OnMenuSelection(a, msg, ok) ==
    CASE msg.choice = StartSession ->
            [a |-> [a EXCEPT !.subjectSelect = NewSubjectSelectModel,
                             !.currentView = "SubjectSelect"],
             cmd |-> LoadSubjectsCmd]
      [] msg.choice = ViewStats ->
            [a |-> [a EXCEPT !.currentView = "Stats"], cmd |-> LoadStatsCmd(ok)]
      [] msg.choice = ManageQuotes ->
            [a |-> [a EXCEPT !.currentView = "Quotes"], cmd |-> LoadQuotesCmd]
      [] msg.choice = QuitApp -> [a |-> a, cmd |-> QuitCmd]
      [] OTHER -> [a |-> a, cmd |-> NilCmd]

\* AppModel.Update, case SubjectSelectedMsg.  The application passes 25
\* minutes; the model draws the duration from Durations.
OnSubjectSelected(a, msg, minutes, ok) ==
    [a |-> [a EXCEPT !.timer = NewTimerModelWithMode(minutes, msg.SubjectID,
                                                     a.now, ok),
                     !.now = a.now + 1,
                     !.currentView = "Timer"],
     cmd |-> TimerInit]

\* A handler that saves nothing itself.
OnTimerCompleteSavesNothing(a, msg, ok) ==
    [a |-> [a EXCEPT !.currentView = "Menu"], cmd |-> ReloadStatsCmd]

\* AppModel.Update, case TimerCompleteMsg.  The results of db.CreateSession
\* are discarded.
OnTimerComplete(a, msg, ok) ==
    [a |-> [a EXCEPT !.sessions = CreateSession(a.sessions, msg, ok),
                     !.currentView = "Menu"],
     cmd |-> ReloadStatsCmd]

\* AppModel.Update, case StatsLoadedMsg.  m.stats is read by the statistics
\* view only and is not kept.
OnStatsLoaded(a, msg) ==
    [a |-> [a EXCEPT !.statsErr = msg.Err,
                     !.menu.streak = IF msg.Stats # NilStats
                                     THEN msg.Stats ELSE a.menu.streak],
     cmd |-> NilCmd]

\* AppModel.Update
AppUpdate(a, msg, minutes, ok) ==
    CASE msg.type = "StatsLoadedMsg" -> OnStatsLoaded(a, msg)
      [] msg.type = "MenuSelectionMsg" -> OnMenuSelection(a, msg, ok)
      [] msg.type = "SubjectSelectedMsg" ->
            OnSubjectSelected(a, msg, minutes, ok)
      [] msg.type = "BackToMenuMsg" ->
            [a |-> [a EXCEPT !.currentView = "Menu"], cmd |-> NilCmd]
      [] msg.type = "TimerCompleteMsg" -> OnTimerComplete(a, msg, ok)
      [] OTHER -> Route(a, msg, ok)

\* The length of the session a message starts: only SubjectSelectedMsg
\* starts one, every other message is handled without it.
MinutesFor(msg) ==
    IF msg.type = "SubjectSelectedMsg" THEN Durations ELSE {MaxMinutes}

\* The outcomes of the database call that handling a message leads to:
\* the content lookup for SubjectSelectedMsg and quoteTickMsg, the insert
\* for TimerCompleteMsg, the statistics query for the ViewStats choice.
OutcomesFor(msg) ==
    IF \/ msg.type \in {"SubjectSelectedMsg", "quoteTickMsg", "TimerCompleteMsg"}
       \/ msg.type = "MenuSelectionMsg" /\ msg.choice = ViewStats
    THEN BOOLEAN ELSE {TRUE}

\* One turn of the event loop: AppModel.Update handles msg, and the runtime
\* starts the returned command.  taken is the bag of messages taken out of
\* flight to deliver msg (empty for a key press), minutes the length of the
\* session if msg starts one, ok the outcome of the database call if the
\* handler (or its command) makes one.  r is the pair returned by AppModel.Update,
\* inFlight the messages in flight after the step.
Step(msg, taken, minutes, ok) ==
    /\ ~quit
    /\ \E r \in {AppUpdate(App, msg, minutes, ok)} :
       \E inFlight \in {(msgs (-) taken) (+) CmdMsgs(r.cmd)} :
          /\ r.a.now <= MaxTimers + 1
          /\ WithinCaps(inFlight)
          /\ currentView' = r.a.currentView
          /\ timer' = r.a.timer
          /\ menu' = r.a.menu
          /\ subjectSelect' = r.a.subjectSelect
          /\ sessions' = r.a.sessions
          /\ now' = r.a.now
          /\ statsErr' = r.a.statsErr
          /\ msgs' = inFlight
    /\ trail' = TrailAfter(msg)
    /\ UNCHANGED quit
    /\ UNCHANGED streakVars
    /\ UNCHANGED model
    /\ UNCHANGED otherVars

Update(msg, taken) ==
    \E minutes \in MinutesFor(msg), ok \in OutcomesFor(msg) :
        Step(msg, taken, minutes, ok)

(***************************************************************************)
(* Actions: one per kind of message the runtime hands to AppModel.Update.  *)
(***************************************************************************)
KeyPress == \E k \in Keys : Update(KeyMsg(k), EmptyBag)

Deliver(t) ==
    \E msg \in BagToSet(msgs) :
        /\ msg.type = t
        /\ Update(msg, SetToBag({msg}))

DeliverTick == Deliver("tickMsg")
DeliverQuoteTick == Deliver("quoteTickMsg")
DeliverTimerComplete == Deliver("TimerCompleteMsg")
DeliverSubjectSelected == Deliver("SubjectSelectedMsg")
DeliverMenuSelection == Deliver("MenuSelectionMsg")
DeliverBackToMenu == Deliver("BackToMenuMsg")
DeliverSubjectsLoaded == Deliver("SubjectsLoadedMsg")
DeliverStatsLoaded == Deliver("StatsLoadedMsg")

\* A call of db.GetSessionStats in flight returns: its command sends the
\* StatsLoadedMsg.
StatsReturn ==
    /\ ~quit
    /\ \E call \in BagToSet(msgs), ok \in BOOLEAN, streakOk \in BOOLEAN :
          /\ call.type \in {"GetSessionStats", "ReloadSessionStats"}
          /\ msgs' = (msgs (-) SetToBag({call}))
                        (+) SetToBag({StatsReturned(call, sessions, clock,
                                                    dstShift, ok, streakOk)})
    /\ UNCHANGED <<currentView, timer, menu, subjectSelect, sessions, now,
                   quit, statsErr, trail>>
    /\ UNCHANGED streakVars
    /\ UNCHANGED model
    /\ UNCHANGED otherVars

\* tea.Quit reaches the event loop: the program ends.
DeliverQuit ==
    /\ ~quit
    /\ CopiesIn(QuitMsg, msgs) > 0
    /\ quit' = TRUE
    /\ msgs' = msgs (-) SetToBag({QuitMsg})
    /\ trail' = NoTrail
    /\ UNCHANGED <<currentView, timer, menu, subjectSelect, sessions, now,
                   statsErr>>
    /\ UNCHANGED streakVars
    /\ UNCHANGED model
    /\ UNCHANGED otherVars

\* NewAppModel, AppModel.Init
AppInit ==
    /\ currentView = "Menu"
    /\ timer = ZeroTimer
    /\ menu = NewMenuModel
    /\ subjectSelect = NewSubjectSelectModel
    /\ msgs = EmptyBag
    /\ sessions = EmptyBag
    /\ now = 1
    /\ quit = FALSE
    /\ statsErr = FALSE
    /\ trail = NoTrail
    /\ NoCalendar
    /\ NoStandalone
    /\ NoQuotes
    /\ NoConnect

AppNext ==
    \/ KeyPress
    \/ DeliverTick
    \/ DeliverQuoteTick
    \/ DeliverTimerComplete
    \/ DeliverSubjectSelected
    \/ DeliverMenuSelection
    \/ DeliverBackToMenu
    \/ DeliverSubjectsLoaded
    \/ StatsReturn
    \/ DeliverStatsLoaded
    \/ DeliverQuit

\* The whole application, from the menu on, over any number of sessions up
\* to MaxTimers.
AppSpec == AppInit /\ [][AppNext]_vars

(***************************************************************************)
(* One focus session: from the moment AppModel.Update has handled the      *)
(* SubjectSelectedMsg of the first session (the timer is created, the      *)
(* timer view is active and the commands of TimerModel.Init are running)   *)
(* until the program leaves the timer view or quits.  The messages of the  *)
(* timer still in flight then are delivered to AppModel.Update as before.  *)
(***************************************************************************)
\* The subject under the cursor of the subject list: Keys holds no cursor
\* key, so the cursor is where NewSubjectSelectModel puts it.
FirstSubject == NewSubjectSelectModel.cursor + 1

Init ==
    /\ currentView = "Timer"
    /\ \E minutes \in Durations, ok \in BOOLEAN :
          timer = NewTimerModelWithMode(minutes, FirstSubject, 1, ok)
    /\ subjectSelect = [subjects |-> NumSubjects, cursor |-> FirstSubject - 1]
    /\ menu = NewMenuModel
    /\ msgs = CmdMsgs(TimerInit)
    /\ sessions = EmptyBag
    /\ now = 2
    /\ quit = FALSE
    /\ statsErr = FALSE
    /\ trail = NoTrail
    /\ NoCalendar
    /\ NoStandalone
    /\ NoQuotes
    /\ NoConnect

\* A key pressed while the timer view is active.
TimerKeyPress == currentView = "Timer" /\ KeyPress

Next ==
    \/ TimerKeyPress
    \/ DeliverTick
    \/ DeliverQuoteTick
    \/ DeliverTimerComplete
    \/ DeliverQuit

Spec == Init /\ [][Next]_vars

(***************************************************************************)
(* A session of any length.  NewTimerModel and NewTimerModelWithMode take  *)
(* any number of minutes; the application passes 25.  Here the subject has *)
(* been chosen (its SubjectSelectedMsg is in flight) and the session is    *)
(* created with any duration from 0 to MaxMinutes, then runs as above.     *)
(***************************************************************************)
AnyDurations == 0..MaxMinutes

\* AppModel.Update, case SubjectSelectedMsg, with D minutes for the timer.
StartWith(D, s, ok) ==
    /\ CopiesIn(SubjectSelectedMsg(s), msgs) > 0
    /\ Step(SubjectSelectedMsg(s), SetToBag({SubjectSelectedMsg(s)}), D, ok)

NewSession ==
    \E D \in AnyDurations, s \in 1..NumSubjects, ok \in BOOLEAN :
        StartWith(D, s, ok)

CreateInit ==
    /\ currentView = "SubjectSelect"
    /\ timer = ZeroTimer
    /\ menu = NewMenuModel
    /\ subjectSelect = [subjects |-> NumSubjects, cursor |-> FirstSubject - 1]
    /\ msgs = SetToBag({SubjectSelectedMsg(FirstSubject)})
    /\ sessions = EmptyBag
    /\ now = 1
    /\ quit = FALSE
    /\ statsErr = FALSE
    /\ trail = NoTrail
    /\ NoCalendar
    /\ NoStandalone
    /\ NoQuotes
    /\ NoConnect

CreateNext ==
    \/ NewSession
    \/ TimerKeyPress
    \/ DeliverTick
    \/ DeliverQuoteTick
    \/ DeliverTimerComplete
    \/ DeliverQuit

CreateSpec == CreateInit /\ [][CreateNext]_vars

(***************************************************************************)
(* A session left alone: the user presses no key.  tea.Tick fires after    *)
(* its interval and the runtime hands the message to Update, so a pending  *)
(* one-second tick is eventually delivered.                                *)
(***************************************************************************)
IdleNext ==
    \/ DeliverTick
    \/ DeliverQuoteTick
    \/ DeliverTimerComplete

IdleSpec == Init /\ [][IdleNext]_vars /\ WF_vars(DeliverTick)

(***************************************************************************)
(* The streak calculator.  Completed sessions are stored as time passes    *)
(* (CreateSession stamps CompletedAt with time.Now()), and the statistics  *)
(* are read at any time.  The clock is followed at the first and the last  *)
(* hour of each day.                                                       *)
(***************************************************************************)
ClockHours == {0, HoursPerDay - 1}

\* The UTC calendar day that the instant t falls on.
DayOf(t) == t \div HoursPerDay
Instants == {d * HoursPerDay + h : d \in 0..MaxDays, h \in ClockHours}
ZoneShifts == {-1, 0, 1}

\* The instants of D as the query sorted by completed_at descending
\* returns them: most recent first.
MostRecentFirst(D) ==
    LET asc == Earliest(D)
    IN  [i \in 1..Len(asc) |-> asc[Len(asc) + 1 - i]]

\* The orders in which a range over a map with the keys D can yield them.
Orders(D) ==
    LET asc == Earliest(D)
    IN  {[i \in 1..Len(asc) |-> perm[asc[i]]] : perm \in Permutations(D)}

\* Time passes until the next hour at which the clock is followed.  On a
\* new day the local zone may have changed its UTC offset.
Advance ==
    /\ \E t \in Instants :
          /\ t > clock
          /\ \A u \in Instants : u > clock => t <= u
          /\ clock' = t
          /\ IF DayOf(t) = DayOf(clock)
             THEN dstShift' = dstShift
             ELSE dstShift' \in ZoneShifts
    /\ UNCHANGED <<completedAt, stats>>
    /\ UNCHANGED appVars
    /\ UNCHANGED model
    /\ UNCHANGED otherVars

\* db.CreateSession with StatusCompleted: CompletedAt is time.Now().
StoreCompleted ==
    /\ clock \notin completedAt
    /\ Cardinality(completedAt) < MaxSessions
    /\ completedAt' = completedAt \cup {clock}
    /\ stats' = NoStats
    /\ UNCHANGED <<clock, dstShift>>
    /\ UNCHANGED appVars
    /\ UNCHANGED model
    /\ UNCHANGED otherVars

\* GetSessionStats calls calculateStreaks: the query has the outcome ok and
\* the range over the map yields the days in the given order.
StreaksCall(ok, order) ==
    /\ \E r \in {calculateStreaks(completedAt, order, clock, dstShift, ok)} :
          stats' = [called |-> TRUE, failed |-> ~ok, day |-> DayOf(clock),
                    current |-> r.current, longest |-> r.longest,
                    repeat |-> /\ stats.called
                               /\ stats.day = DayOf(clock)
                               /\ stats.failed = ~ok]
    /\ UNCHANGED <<completedAt, clock, dstShift>>
    /\ UNCHANGED appVars
    /\ UNCHANGED model
    /\ UNCHANGED otherVars

ReadStreaks ==
    \E ok \in BOOLEAN, order \in Orders(UniqueDays(completedAt)) :
        StreaksCall(ok, order)

StreakInit ==
    /\ currentView = "Menu"
    /\ timer = ZeroTimer
    /\ menu = NewMenuModel
    /\ subjectSelect = NewSubjectSelectModel
    /\ msgs = EmptyBag
    /\ sessions = EmptyBag
    /\ now = 1
    /\ quit = FALSE
    /\ statsErr = FALSE
    /\ trail = NoTrail
    /\ completedAt = {}
    /\ clock = 0
    /\ dstShift \in ZoneShifts
    /\ stats = NoStats
    /\ NoStandalone
    /\ NoQuotes
    /\ NoConnect

StreakNext ==
    \/ Advance
    \/ StoreCompleted
    \/ ReadStreaks

StreakSpec == StreakInit /\ [][StreakNext]_vars

\* A successful call of the calculator, whatever the order of the map.
ReadStreaksOk ==
    \E order \in Orders(UniqueDays(completedAt)) : StreaksCall(TRUE, order)

\* The calendar days on which a session was completed, and today, yesterday
\* and the most recent of them as day numbers.
CompletionDays == {DayOf(t) : t \in completedAt}
TodayDay == DayOf(clock)
MostRecentDay == CHOOSE d \in CompletionDays : \A e \in CompletionDays : e <= d

\* The days d, d-1, ..., d-n+1 are all completion days.
RunEndingAt(d, n) == \A i \in 0..(n - 1) : (d - i) \in CompletionDays

\* The length of the run of consecutive completion days that ends at d.
RunLengthAt(d) ==
    IF d \notin CompletionDays THEN 0
    ELSE CHOOSE n \in 1..(MaxDays + 1) :
            RunEndingAt(d, n) /\ (d - n) \notin CompletionDays

\* The length of the longest run of consecutive completion days.
LongestRun ==
    IF CompletionDays = {} THEN 0
    ELSE CHOOSE n \in 1..(MaxDays + 1) :
            /\ \E d \in CompletionDays : RunLengthAt(d) = n
            /\ \A d \in CompletionDays : RunLengthAt(d) <= n

(***************************************************************************)
(* The standalone timer as a program: tea.NewProgram(newModel(minutes))    *)
(* calls Init and then hands every key and every tick to Update.  msgs     *)
(* and quit are those of this program.                                     *)
(***************************************************************************)
\* One turn of the event loop of the standalone program.
MainStep(msg, taken) ==
    /\ ~quit
    /\ \E r \in {mainUpdate(model, msg)} :
       \E inFlight \in {(msgs (-) taken) (+) CmdMsgs(r.cmd)} :
          /\ WithinCaps(inFlight)
          /\ model' = r.m
          /\ msgs' = inFlight
    /\ UNCHANGED <<currentView, timer, menu, subjectSelect, sessions, now,
                   quit, statsErr, trail>>
    /\ UNCHANGED streakVars
    /\ UNCHANGED otherVars

MainKeyPress == \E k \in Keys : MainStep(KeyMsg(k), EmptyBag)

MainDeliverTick ==
    /\ CopiesIn(tickMsg, msgs) > 0
    /\ MainStep(tickMsg, SetToBag({tickMsg}))

\* The program after model.Init has been called.
MainInit ==
    /\ \E minutes \in Durations :
          /\ model = mainInit(newModel(minutes)).m
          /\ msgs = CmdMsgs(mainInit(newModel(minutes)).cmd)
    /\ currentView = "Menu"
    /\ timer = ZeroTimer
    /\ menu = NewMenuModel
    /\ subjectSelect = NewSubjectSelectModel
    /\ sessions = EmptyBag
    /\ now = 1
    /\ quit = FALSE
    /\ statsErr = FALSE
    /\ trail = NoTrail
    /\ NoCalendar
    /\ NoQuotes
    /\ NoConnect

MainNext ==
    \/ MainKeyPress
    \/ MainDeliverTick
    \/ DeliverQuit

MainSpec == MainInit /\ [][MainNext]_vars

\* The standalone program is as model.Init left it: no input has changed
\* the model or the messages in flight.
MainStarted ==
    /\ ~quit
    /\ model = newModel(model.totalSeconds \div SecondsPerMinute)
    /\ model.totalSeconds > 0
    /\ msgs = CmdMsgs(mainInit(model).cmd)

(***************************************************************************)
(* A second session: the first session was abandoned before its first tick *)
(* (q, y), AppModel.Update has handled its TimerCompleteMsg, and the tick   *)
(* and the rotation tick that the first timer scheduled are still in       *)
(* flight.  The clock is read from here on: the first timer started at 0.  *)
(* The user goes through the menu and the subject list and gives the second *)
(* timer no input, so the second timer schedules one tick and one rotation *)
(* tick at a time.                                                         *)
(***************************************************************************)
\* The timer of the first session when its abandonment was confirmed.
AbandonedTimer(minutes, ok) ==
    [NewTimerModelWithMode(minutes, FirstSubject, 0, ok)
        EXCEPT !.confirming = TRUE, !.running = FALSE]

RestartInit ==
    /\ currentView = "Menu"
    /\ \E minutes \in Durations, ok \in BOOLEAN, saved \in BOOLEAN :
          /\ timer = AbandonedTimer(minutes, ok)
          /\ sessions = CreateSession(EmptyBag,
                            TimerCompleteMsg(FALSE, AbandonedTimer(minutes, ok)),
                            saved)
    /\ subjectSelect = [subjects |-> NumSubjects, cursor |-> FirstSubject - 1]
    /\ menu = NewMenuModel
    /\ msgs = CmdMsgs(TimerInit) (+) CmdMsgs(ReloadStatsCmd)
    /\ now = 1
    /\ quit = FALSE
    /\ statsErr = FALSE
    /\ trail = NoTrail
    /\ NoCalendar
    /\ NoStandalone
    /\ NoQuotes
    /\ NoConnect

\* A key pressed while a view other than the timer view is active.
NavKeyPress == currentView # "Timer" /\ KeyPress

RestartNext ==
    \/ NavKeyPress
    \/ DeliverTick
    \/ DeliverQuoteTick
    \/ DeliverTimerComplete
    \/ DeliverSubjectSelected
    \/ DeliverMenuSelection
    \/ DeliverBackToMenu
    \/ DeliverSubjectsLoaded
    \/ StatsReturn
    \/ DeliverStatsLoaded
    \/ DeliverQuit

RestartSpec == RestartInit /\ [][RestartNext]_vars

(***************************************************************************)
(* A session to its end and beyond: the user lets the timer run out or     *)
(* abandons it (q, y), AppModel.Update saves the outcome and returns the   *)
(* command that reloads the statistics.  The runtime runs every command it *)
(* is given and hands every message to Update, so a call in flight         *)
(* eventually returns and its StatsLoadedMsg is eventually delivered.      *)
(***************************************************************************)
\* The keys that abandon a session.
AbandonKeys == {"q", "y"}

AbandonKeyPress ==
    /\ currentView = "Timer"
    /\ \E k \in AbandonKeys : Update(KeyMsg(k), EmptyBag)

OutcomeNext ==
    \/ AbandonKeyPress
    \/ DeliverTick
    \/ DeliverQuoteTick
    \/ DeliverTimerComplete
    \/ StatsReturn
    \/ DeliverStatsLoaded

OutcomeSpec ==
    /\ Init
    /\ [][OutcomeNext]_vars
    /\ WF_vars(StatsReturn)
    /\ WF_vars(DeliverStatsLoaded)

(***************************************************************************)
(* The quotes screen: AppModel.Update has handled the ManageQuotes choice, *)
(* the quotes view is active with a new QuotesModel and the command of     *)
(* LoadQuotes is running.  The collection holds any number of quotes up to *)
(* MaxQuotes.  Each command of QuotesModel runs in its own goroutine: its  *)
(* call of the collection returns at any time, and the message it sends is *)
(* delivered at any time after that.                                       *)
(***************************************************************************)
QuoteCallTypes == {"GetAllQuotes", "AddQuote", "DeleteQuote"}
QuoteMsgTypes == {"QuotesLoadedMsg", "QuoteAddedMsg", "QuoteDeletedMsg"}

\* The bag b of calls and messages in flight stays within the bounds.
WithinQuoteCaps(b) ==
    /\ TypeCount(QuoteCallTypes \cup QuoteMsgTypes, b) <= MaxCalls
    /\ TypeCount(NavTypes, b) <= MaxNav

QuotesInit ==
    /\ currentView = "Quotes"
    /\ timer = ZeroTimer
    /\ menu = [NewMenuModel EXCEPT !.cursor = ManageQuotes]
    /\ subjectSelect = NewSubjectSelectModel
    /\ msgs = QuotesCmdMsgs(LoadQuotesCmd)
    /\ sessions = EmptyBag
    /\ now = 1
    /\ quit = FALSE
    /\ statsErr = FALSE
    /\ trail = NoTrail
    /\ quotes = NewQuotesModel
    /\ \E n \in 0..MaxQuotes : quotesCollection = QuotesStored(n)
    /\ NoCalendar
    /\ NoStandalone
    /\ NoConnect

\* AppModel.Update, case QuotesViewState: the message goes to
\* QuotesModel.Update and the runtime starts the returned command.
QuotesStep(msg, taken) ==
    /\ ~quit
    /\ currentView = "Quotes"
    /\ \E r \in {QuotesModelUpdate(quotes, msg)} :
       \E inFlight \in {(msgs (-) taken) (+) QuotesCmdMsgs(r.cmd)} :
          /\ WithinQuoteCaps(inFlight)
          /\ quotes' = r.m
          /\ msgs' = inFlight
    /\ UNCHANGED <<currentView, timer, menu, subjectSelect, sessions, now,
                   quit, statsErr, trail>>
    /\ UNCHANGED streakVars
    /\ UNCHANGED <<model, quotesCollection, conn>>

QuotesKeyPress == \E k \in QuoteKeys : QuotesStep(KeyMsg(k), EmptyBag)

\* A message of a quotes command is delivered: to QuotesModel.Update while
\* the quotes view is active, to the model of the active view after that.
QuotesDeliver(t) ==
    \E msg \in BagToSet(msgs) :
        /\ msg.type = t
        /\ IF currentView = "Quotes"
           THEN QuotesStep(msg, SetToBag({msg}))
           ELSE Update(msg, SetToBag({msg}))

DeliverQuotesLoaded == QuotesDeliver("QuotesLoadedMsg")
DeliverQuoteAdded == QuotesDeliver("QuoteAddedMsg")
DeliverQuoteDeleted == QuotesDeliver("QuoteDeletedMsg")

\* A call of the quotes collection in flight returns: its command sends
\* its message.  InsertOne gives out at most MaxQuotes IDs.
QuotesReturn ==
    /\ ~quit
    /\ \E call \in BagToSet(msgs), ok \in BOOLEAN :
          /\ call.type \in QuoteCallTypes
          /\ (call.type = "AddQuote" /\ ok)
                => quotesCollection.next <= MaxQuotes
          /\ \E r \in {QuotesReturned(call, quotesCollection, ok)} :
                /\ quotesCollection' = r.db
                /\ msgs' = (msgs (-) SetToBag({call})) (+) SetToBag({r.msg})
    /\ UNCHANGED <<currentView, timer, menu, subjectSelect, sessions, now,
                   quit, statsErr, trail>>
    /\ UNCHANGED streakVars
    /\ UNCHANGED <<model, quotes, conn>>

QuotesNext ==
    \/ QuotesKeyPress
    \/ QuotesReturn
    \/ DeliverQuotesLoaded
    \/ DeliverQuoteAdded
    \/ DeliverQuoteDeleted
    \/ DeliverBackToMenu

QuotesSpec == QuotesInit /\ [][QuotesNext]_vars

(***************************************************************************)
(* The connection: the program calls db.Connect, up to MaxConnects times,  *)
(* with BEOT_MONGODB_URI absent or set, and db.Disconnect at any time      *)
(* between.  mongo.Connect and Ping wait for the server, so each is a step *)
(* of its own with either outcome.                                         *)
(***************************************************************************)
ConnectInit ==
    /\ \E env \in Uris : conn = NotConnected(env)
    /\ currentView = "Menu"
    /\ timer = ZeroTimer
    /\ menu = NewMenuModel
    /\ subjectSelect = NewSubjectSelectModel
    /\ msgs = EmptyBag
    /\ sessions = EmptyBag
    /\ now = 1
    /\ quit = FALSE
    /\ statsErr = FALSE
    /\ trail = NoTrail
    /\ NoCalendar
    /\ NoStandalone
    /\ NoQuotes

\* A step of Connect leaves the application as it is.
ConnectStep(c) ==
    /\ conn' = c
    /\ UNCHANGED appVars
    /\ UNCHANGED streakVars
    /\ UNCHANGED <<model, quotes, quotesCollection>>

\* Connect is called.
ConnectCall ==
    /\ conn.pc = "idle"
    /\ conn.calls < MaxConnects
    /\ ConnectStep(ConnectBegin(conn))

\* mongo.Connect returns.
Dial ==
    /\ conn.pc = "connect"
    /\ \E ok \in BOOLEAN : ConnectStep(ConnectDial(conn, ok))

\* client.Ping returns.
Ping ==
    /\ conn.pc = "ping"
    /\ \E ok \in BOOLEAN : ConnectStep(ConnectPing(conn, ok))

\* Disconnect is called.
Close ==
    /\ conn.pc = "idle"
    /\ ConnectStep(Disconnect(conn))

ConnectNext ==
    \/ ConnectCall
    \/ Dial
    \/ Ping
    \/ Close

ConnectSpec == ConnectInit /\ [][ConnectNext]_vars

TypeOK ==
    /\ currentView \in {"Menu", "SubjectSelect", "Timer", "Stats", "Quotes"}
    /\ timer.remainingSeconds \in Int
    /\ timer.content \in {"none", "default", "stored"}
    /\ quit \in BOOLEAN
    /\ statsErr \in BOOLEAN
    /\ menu.streak \in 0..1
    /\ quotes.cursor \in Nat /\ quotes.adding \in BOOLEAN
    /\ quotes.inputFocus \in 0..1
    /\ conn.pc \in {"idle", "connect", "ping"}
    /\ conn.err \in {"none", "uri", "connect", "ping"}
    /\ trail.paused \in Int /\ trail.resumed \in Int
    /\ trail.declined \in Int
    /\ trail.reset \in Int
    /\ trail.resetFrom \in {"none", "Running", "Paused"}
    /\ completedAt \subseteq Instants
    /\ clock \in Instants
    /\ dstShift \in ZoneShifts
    /\ stats.called \in BOOLEAN
    /\ stats.current \in 0..(MaxDays + 1)
    /\ stats.longest \in 0..(MaxDays + 1)
    /\ model.remainingSeconds \in Int
    /\ model.running \in BOOLEAN

\* The timer view is active: messages reach TimerModel.Update.
InTimerView == currentView = "Timer" /\ ~quit

\* The user presses the key k.
Key(k) == Update(KeyMsg(k), EmptyBag)

\* A message reaches TimerModel.Update.
TimerInput == InTimerView /\ (KeyPress \/ DeliverTick \/ DeliverQuoteTick)

OneTick == SetToBag({tickMsg})
OneQuoteTick == SetToBag({quoteTickMsg})
Outcome(completed) == SetToBag({TimerCompleteMsg(completed, timer)})

\* Sessions stored for the timer started at time t.
SessionsOf(t) ==
    LET S == {d \in BagToSet(sessions) : d.StartedAt = t}
    IN  BagCardinality([d \in S |-> sessions[d]])

(***************************************************************************)
(* Properties.                                                             *)
(***************************************************************************)

\* C1: in every reachable state the remaining duration of the timer lies
\* between 0 and its total duration.
C1_RemainingInRange ==
    /\ 0 <= timer.remainingSeconds
    /\ timer.remainingSeconds <= timer.totalSeconds

\* C1 witness: a countdown that has been ticking, paused, with the tick chain
\* gone.
C1_Witness ==
    /\ InTimerView
    /\ Paused
    /\ 0 < timer.remainingSeconds
    /\ timer.remainingSeconds < timer.totalSeconds
    /\ PendingTicks = 0

\* C2: at most one one-second tick is outstanding for the timer at any time.
C2_AtMostOneTick == InTimerView => PendingTicks <= 1

\* C3: a tick delivered to a Running timer with one second left sets
\* remaining to 0, stops the timer, schedules no further tick and emits
\* exactly one TimerCompleteMsg{Completed: true}.
C3_LastTickCompletes ==
    [][(InTimerView /\ Running /\ timer.remainingSeconds = 1 /\ DeliverTick)
        => /\ timer' = [timer EXCEPT !.remainingSeconds = 0, !.running = FALSE]
           /\ msgs' = (msgs (-) OneTick) (+) Outcome(TRUE)
           /\ currentView' = currentView]_vars

\* C3 witness: the countdown has just reached zero out of a single tick chain
\* and its one outcome is in flight.
C3_Witness ==
    /\ InTimerView
    /\ timer.totalSeconds > 0
    /\ timer.remainingSeconds = 0
    /\ ~timer.running
    /\ PendingTicks = 0
    /\ PendingComplete = 1
    /\ CopiesIn(TimerCompleteMsg(TRUE, timer), msgs) = 1

\* C4: no timer gives rise to more than one stored Session.
C4_OneSessionPerTimer == \A t \in 1..MaxTimers : SessionsOf(t) <= 1

\* C5: once the timer is Complete, a message delivered to TimerModel.Update
\* changes no timer state and emits no further TimerCompleteMsg.
C5_CompleteIsTerminal ==
    [][(Complete /\ TimerInput)
        => /\ timer' = timer
           /\ TypeCount({"TimerCompleteMsg"}, msgs') <= PendingComplete]_vars

\* C6: a tick delivered to a Running timer with more than one second left
\* decrements remaining by exactly 1, leaves the timer Running, emits no
\* outcome and schedules exactly one next tick.
C6_TickDecrements ==
    [][(InTimerView /\ Running /\ timer.remainingSeconds > 1 /\ DeliverTick)
        => /\ timer' = [timer EXCEPT !.remainingSeconds = timer.remainingSeconds - 1]
           /\ timer'.running
           /\ msgs' = msgs
           /\ currentView' = currentView]_vars

\* C6 witness: a Running timer part-way through its countdown, one tick
\* pending and no outcome emitted.
C6_Witness ==
    /\ InTimerView
    /\ Running
    /\ timer.remainingSeconds = timer.totalSeconds - 2
    /\ PendingTicks = 1
    /\ PendingComplete = 0

\* C7: a pause input leaves the timer Paused with remaining unchanged, and a
\* tick delivered while the timer is not running leaves the timer unchanged
\* and schedules no successor tick.
C7_PausedTickDies ==
    [][/\ (InTimerView /\ Running /\ Key(" "))
            => (timer' = [timer EXCEPT !.running = FALSE] /\ msgs' = msgs)
       /\ (InTimerView /\ ~timer.running /\ DeliverTick)
            => (timer' = timer /\ msgs' = msgs (-) OneTick)]_vars

\* C7 witness: a Paused timer at its full duration whose tick chain has
\* ended: the tick was delivered after the pause.
C7_Witness ==
    /\ InTimerView
    /\ Paused
    /\ timer.remainingSeconds = timer.totalSeconds
    /\ PendingTicks = 0

\* C8: whenever a pause input has been followed directly by a resume input
\* (no tick or other message delivered in between), the timer is Running and
\* remaining is what it was when the pause was pressed.
C8_PauseResumeKeepsRemaining ==
    trail.resumed >= 0
        => /\ Running
           /\ timer.remainingSeconds = trail.resumed

\* C8 witness: a pause and resume performed part-way through the countdown.
C8_Witness ==
    /\ InTimerView
    /\ trail.resumed > 0
    /\ trail.resumed < timer.totalSeconds
    /\ PendingTicks = 2

\* C9: a quit input in Running or Paused moves the timer to
\* ConfirmingAbandon without emitting an outcome, and while the timer is
\* ConfirmingAbandon no tick delivery decrements remaining.
C9_QuitSuspendsCountdown ==
    [][/\ (InTimerView /\ (Running \/ Paused) /\ Key("q"))
            => /\ timer' = [timer EXCEPT !.confirming = TRUE, !.running = FALSE]
               /\ msgs' = msgs
       /\ (InTimerView /\ ConfirmingAbandon /\ DeliverTick)
            => (timer' = timer /\ msgs' = msgs (-) OneTick)]_vars

\* C9 witness: the confirmation is open part-way through the countdown and
\* the pending tick has been delivered to it without effect.
C9_Witness ==
    /\ InTimerView
    /\ ConfirmingAbandon
    /\ ~timer.running
    /\ timer.remainingSeconds = timer.totalSeconds - 1
    /\ PendingTicks = 0
    /\ PendingComplete = 0

\* C10: from ConfirmingAbandon a "y" input emits
\* TimerCompleteMsg{Completed: false} and no completed outcome, whatever the
\* value of remaining.
C10_YesAbandons ==
    [][(InTimerView /\ timer.confirming /\ Key("y"))
        => /\ msgs' = msgs (+) Outcome(FALSE)
           /\ timer' = timer]_vars

\* C10 witness: the abandoned outcome of a timer part-way through its
\* countdown is in flight.
C10_Witness ==
    /\ InTimerView
    /\ timer.confirming
    /\ timer.remainingSeconds < timer.totalSeconds
    /\ CopiesIn(TimerCompleteMsg(FALSE, timer), msgs) = 1
    /\ CopiesIn(TimerCompleteMsg(TRUE, timer), msgs) = 0

\* C11: from ConfirmingAbandon a "no" input (n or esc) returns the timer to
\* Running with remaining unchanged and schedules a one-second tick,
\* whatever state the timer was in when quit was pressed.
C11_NoResumes ==
    [][(InTimerView /\ ConfirmingAbandon /\ (Key("n") \/ Key("esc")))
        => /\ timer' = [timer EXCEPT !.confirming = FALSE, !.running = TRUE]
           /\ msgs' = msgs (+) OneTick]_vars

\* C11 witness: the confirmation has just been declined part-way through the
\* countdown; the timer is Running on the single tick that the "no"
\* scheduled (the earlier tick chain had ended while the timer was stopped).
C11_Witness ==
    /\ InTimerView
    /\ trail.declined > 0
    /\ trail.declined < timer.totalSeconds
    /\ Running
    /\ timer.remainingSeconds = trail.declined
    /\ PendingTicks = 1

\* C12: a reset input in Running or Paused sets remaining back to total and
\* leaves the timer Running; in ConfirmingAbandon a reset input changes
\* neither the timer nor the messages in flight.
C12_ResetRestoresTotal ==
    [][/\ (InTimerView /\ (Running \/ Paused) /\ Key("r"))
            => /\ timer' = [timer EXCEPT !.remainingSeconds = timer.totalSeconds,
                                         !.running = TRUE]
               /\ ~timer'.confirming
       /\ (InTimerView /\ ConfirmingAbandon /\ Key("r"))
            => (timer' = timer /\ msgs' = msgs)]_vars

\* C12 witness: a reset has just been pressed on a Paused timer part-way
\* through its countdown.
C12_Witness ==
    /\ InTimerView
    /\ trail.resetFrom = "Paused"
    /\ trail.reset > 0
    /\ trail.reset < timer.totalSeconds
    /\ Running
    /\ timer.remainingSeconds = timer.totalSeconds

\* C13: a rotation tick delivered to the timer never touches the countdown
\* (remaining, total, running, confirming), emits no outcome and schedules
\* no one-second tick; delivered to a Running timer it schedules the next
\* rotation tick, and delivered to a timer that is not Running it changes no
\* content and schedules nothing.
C13_RotationLeavesCountdown ==
    [][(InTimerView /\ DeliverQuoteTick)
        => /\ timer' = [timer EXCEPT !.content = timer'.content]
           /\ TypeCount({"TimerCompleteMsg"}, msgs') = PendingComplete
           /\ CopiesIn(tickMsg, msgs') = PendingTicks
           /\ Running => msgs' = msgs
           /\ ~Running => (timer' = timer /\ msgs' = msgs (-) OneQuoteTick)]_vars

\* C13 witness: the rotation tick was delivered while the timer was stopped
\* part-way through the countdown; no rotation tick is pending any more.
C13_Witness ==
    /\ InTimerView
    /\ Paused
    /\ timer.remainingSeconds < timer.totalSeconds
    /\ PendingQuoteTicks = 0

\* C14: whenever the timer is Running, a rotation tick is pending: pausing
\* and resuming, or opening and declining the abandon confirmation, leaves
\* the rotation of the displayed content going.
C14_RotationPendingWhileRunning ==
    (InTimerView /\ Running) => PendingQuoteTicks >= 1

\* The keys that have a meaning in the state the timer is in.
ValidKeys ==
    CASE ConfirmingAbandon -> {"y", "n", "esc"}
      [] Running \/ Paused -> {" ", "r", "q", "ctrl+c"}
      [] OTHER -> Keys

\* C15: a key other than y, n, esc pressed in ConfirmingAbandon, and a key
\* other than space, r, q, ctrl+c pressed in Running or Paused, is ignored:
\* AppModel.Update returns the application as it was, the whole timer
\* included, and no command.
C15_InvalidKeysIgnored ==
    InTimerView
        => \A k \in Keys \ ValidKeys :
              \A minutes \in MinutesFor(KeyMsg(k)), ok \in OutcomesFor(KeyMsg(k)) :
                 AppUpdate(App, KeyMsg(k), minutes, ok)
                    = [a |-> App, cmd |-> NilCmd]

\* C15 witness: the abandon confirmation is open part-way through the
\* countdown with the tick and the rotation tick still pending, the state
\* in which (and to which) the keys without a meaning there are pressed.
C15_Witness ==
    /\ InTimerView
    /\ ConfirmingAbandon
    /\ timer.remainingSeconds < timer.totalSeconds
    /\ PendingTicks = 1
    /\ PendingQuoteTicks = 1
    /\ PendingComplete = 0
    /\ trail = NoTrail

\* C16: for every duration D >= 0 in minutes, the timer that
\* NewTimerModelWithMode creates has remaining = total = D*60, has its
\* running flag set and is not confirming.
C16_FreshTimer ==
    [][\A s \in 1..NumSubjects :
          CopiesIn(SubjectSelectedMsg(s), msgs) > 0
              => \A D \in AnyDurations, ok \in BOOLEAN :
                    StartWith(D, s, ok)
                        => /\ timer'.totalSeconds = D * 60
                           /\ timer'.remainingSeconds = D * 60
                           /\ timer'.running
                           /\ ~timer'.confirming]_vars

\* C16 witness: a timer of zero minutes has just been created; its tick and
\* rotation tick are pending and nothing has been emitted.
C16_Witness ==
    /\ currentView = "Timer"
    /\ timer.totalSeconds = 0
    /\ timer.remainingSeconds = 0
    /\ timer.running
    /\ msgs = CmdMsgs(TimerInit)
    /\ sessions = EmptyBag

\* C17: a freshly started timer that receives no user input eventually
\* reaches remaining = 0 with TimerCompleteMsg{Completed: true} emitted, and
\* it does so after exactly total tick deliveries: every tick delivery
\* takes one second off remaining, at most one tick is pending, and none is
\* pending once remaining is 0.
C17_CountdownCompletes ==
    /\ <>(/\ timer.remainingSeconds = 0
          /\ CopiesIn(TimerCompleteMsg(TRUE, timer), msgs) = 1)
    /\ [][DeliverTick
            => timer'.remainingSeconds = timer.remainingSeconds - 1]_vars
    /\ [](/\ PendingTicks <= 1
          /\ timer.remainingSeconds = 0 => PendingTicks = 0)

\* C17 witness: the untouched countdown has run out; its completed outcome
\* is in flight, not yet handled, and the rotation of content is still
\* scheduled.
C17_Witness ==
    /\ currentView = "Timer"
    /\ timer.totalSeconds > 0
    /\ timer.remainingSeconds = 0
    /\ CopiesIn(TimerCompleteMsg(TRUE, timer), msgs) = 1
    /\ PendingQuoteTicks = 1
    /\ sessions = EmptyBag

\* C18: whenever the program has left the timer view or has quit, a Session
\* (completed or abandoned) is stored for the timer of the session: a focus
\* session never ends unrecorded.
C18_OutcomeRecorded ==
    (quit \/ currentView # "Timer") => SessionsOf(timer.startedAt) >= 1

\* C19: when the insert made for a timer outcome fails (the collection is
\* as before after the TimerCompleteMsg has been handled), the application
\* holds an error to display.
C19_WriteFailureSurfaced ==
    [][(DeliverTimerComplete /\ sessions' = sessions) => statsErr']_vars

\* C20: no Update step makes a persistence call itself: the step that
\* handles TimerCompleteMsg leaves the sessions collection as it is, and the
\* step that handles the rotation tick leaves the displayed content as it
\* is; the results arrive in later messages.
C20_NoInlinePersistence ==
    [][/\ DeliverTimerComplete => sessions' = sessions
       /\ (InTimerView /\ DeliverQuoteTick)
            => timer'.content = timer.content]_vars

\* The rotation tick is delivered and the content lookup it makes has the
\* outcome ok.
QuoteTickWith(ok) ==
    /\ PendingQuoteTicks > 0
    /\ Step(quoteTickMsg, OneQuoteTick, MaxMinutes, ok)

\* C21: when the content lookup fails or finds nothing, at the creation of
\* the timer or at a rotation tick, the timer displays the built-in default
\* text; no error is recorded, the timer view is (or stays) active, and the
\* countdown state and the scheduled commands are those of a lookup that
\* succeeds.
C21_DefaultOnNoContent ==
    [][/\ \A D \in AnyDurations, s \in 1..NumSubjects :
            StartWith(D, s, FALSE)
                => /\ timer' = [NewTimerModelWithMode(D, s, now, TRUE)
                                    EXCEPT !.content = "default"]
                   /\ currentView' = "Timer"
                   /\ statsErr' = statsErr
                   /\ msgs' = (msgs (-) SetToBag({SubjectSelectedMsg(s)}))
                                  (+) CmdMsgs(TimerInit)
       /\ (InTimerView /\ timer.running /\ QuoteTickWith(FALSE))
            => /\ timer' = [timer EXCEPT !.content = "default"]
               /\ currentView' = currentView
               /\ statsErr' = statsErr
               /\ msgs' = msgs]_vars

\* C21 witness: a created timer displays the default text part-way through
\* its countdown and is Running, with its tick and rotation tick pending and
\* no error recorded.
C21_Witness ==
    /\ InTimerView
    /\ timer.content = "default"
    /\ Running
    /\ timer.remainingSeconds < timer.totalSeconds
    /\ PendingTicks = 1
    /\ PendingQuoteTicks = 1
    /\ ~statsErr

\* C22: for an empty set of completion days the streak calculator returns
\* (current, longest) = (0, 0), at any time of any day.
C22_EmptyGivesZero ==
    [][(completedAt = {} /\ ReadStreaks)
        => (stats'.current = 0 /\ stats'.longest = 0)]_vars

\* C22 witness: the streaks have been calculated, the query succeeding, on
\* a later day with no completed session stored.
C22_Witness ==
    /\ completedAt = {}
    /\ stats.called
    /\ ~stats.failed
    /\ stats.day > 0
    /\ stats.current = 0
    /\ stats.longest = 0

\* The streaks held were calculated today, by a call whose query succeeded,
\* from the sessions now stored.
Calculated == stats.called /\ ~stats.failed /\ stats.day = TodayDay

\* C23: for every k >= 1, when the completion days are exactly the k
\* consecutive calendar days ending today, the streak calculator (its query
\* succeeding) returns (current, longest) = (k, k).
C23_RunEndingToday ==
    \A k \in 1..(MaxDays + 1) :
        (Calculated /\ CompletionDays = (TodayDay - k + 1)..TodayDay)
            => (stats.current = k /\ stats.longest = k)

\* C23 witness: the streaks were calculated today for completions on
\* today, yesterday and the day before, and nothing else.
C23_Witness ==
    /\ Calculated
    /\ CompletionDays = (TodayDay - 2)..TodayDay
    /\ stats.current = 3
    /\ stats.longest = 3

\* C24: when the most recent completion day is yesterday (nothing today),
\* the current streak is the length of the run of consecutive days ending
\* yesterday, and the longest streak is the longest run.
C24_GraceDay ==
    (Calculated /\ CompletionDays # {} /\ MostRecentDay = TodayDay - 1)
        => /\ stats.current = RunLengthAt(TodayDay - 1)
           /\ stats.longest = LongestRun

\* C25: when the most recent completion day is earlier than yesterday, the
\* current streak is 0 and the longest streak is the length of the longest
\* run of consecutive completion days.
C25_StaleStreak ==
    (Calculated /\ CompletionDays # {} /\ MostRecentDay < TodayDay - 1)
        => /\ stats.current = 0
           /\ stats.longest = LongestRun

\* C25 witness: two consecutive completion days, the later one two days
\* ago, give (0, 2).
C25_Witness ==
    /\ Calculated
    /\ CompletionDays = {TodayDay - 3, TodayDay - 2}
    /\ stats.current = 0
    /\ stats.longest = 2

\* C26: the current streak is either 0 or the length of the run of
\* consecutive days that ends at the most recent completion day, and it is
\* that length when the most recent completion day is today: days beyond
\* the first gap never contribute.
C26_StopsAtFirstGap ==
    (Calculated /\ CompletionDays # {})
        => /\ stats.current \in {0, RunLengthAt(MostRecentDay)}
           /\ MostRecentDay = TodayDay
                => stats.current = RunLengthAt(MostRecentDay)

\* C26 witness: completions today and on the two days before the day before
\* yesterday: the run behind the gap is the longer one and is not counted.
C26_Witness ==
    /\ Calculated
    /\ CompletionDays = {TodayDay, TodayDay - 2, TodayDay - 3}
    /\ stats.current = 1
    /\ stats.longest = 2

\* C27: the longest streak is the maximum length of a run of consecutive
\* calendar days among the completion days, the oldest run included; it is
\* 1 for a single completion day.
C27_LongestIsMaxRun ==
    Calculated
        => /\ stats.longest = LongestRun
           /\ Cardinality(CompletionDays) = 1 => stats.longest = 1

\* C27 witness: the longest run is the oldest one and does not reach the
\* most recent completion day.
C27_Witness ==
    /\ Calculated
    /\ CompletionDays = {TodayDay - 3, TodayDay - 2, TodayDay}
    /\ MostRecentDay = TodayDay
    /\ RunLengthAt(TodayDay - 2) = 2
    /\ stats.longest = 2
    /\ Cardinality(completedAt) > Cardinality(CompletionDays)

\* One session on each completion day, at midnight.
OncePerDay == {d * HoursPerDay : d \in CompletionDays}

\* C28: several completions on one calendar day count once: the streaks
\* calculated from the sessions stored are those calculated from one
\* session per completion day.
C28_DuplicatesCountOnce ==
    Calculated
        => \E r \in {calculateStreaks(OncePerDay, Earliest(CompletionDays),
                                      clock, dstShift, TRUE)} :
              /\ stats.current = r.current
              /\ stats.longest = r.longest

\* C28 witness: two sessions completed today and one yesterday give (2, 2).
C28_Witness ==
    /\ Calculated
    /\ CompletionDays = {TodayDay - 1, TodayDay}
    /\ Cardinality({t \in completedAt : DayOf(t) = TodayDay}) = 2
    /\ Cardinality(completedAt) = 3
    /\ stats.current = 2
    /\ stats.longest = 2

C30_StandaloneStarts ==
    [][(MainStarted /\ MainDeliverTick)
        => /\ model'.remainingSeconds = model.remainingSeconds - 1
           /\ CopiesIn(tickMsg, msgs') = 1]_vars

\* C33: the streaks do not depend on the order in which the completion
\* days are supplied: for every order in which the map can yield the days
\* of the stored sessions, the calculator returns the (current, longest)
\* that the call made returned.
C33_OrderIndependent ==
    Calculated
        => \A order \in Orders(UniqueDays(completedAt)) :
              \E r \in {calculateStreaks(completedAt, order, clock,
                                         dstShift, TRUE)} :
                 /\ r.current = stats.current
                 /\ r.longest = stats.longest

\* C33 witness: the streaks of three consecutive days ending today and an
\* older separate day have been calculated twice on the same day.
C33_Witness ==
    /\ Calculated
    /\ stats.repeat
    /\ Cardinality(CompletionDays) >= 3
    /\ RunLengthAt(TodayDay) = 2
    /\ stats.current = 2
    /\ stats.longest = 2

\* C38: the calculated streaks are ordered and bounded:
\* 0 <= current <= longest <= number of distinct completion days, and the
\* longest streak is 0 exactly when there is no completed session.
C38_StreakBounds ==
    Calculated
        => /\ 0 <= stats.current
           /\ stats.current <= stats.longest
           /\ stats.longest <= Cardinality(CompletionDays)
           /\ (stats.longest = 0) <=> (completedAt = {})

\* C38 witness: streaks calculated with every inequality strict: a
\* session today, a longer run before a gap, and more days than the
\* longest run.
C38_Witness ==
    /\ Calculated
    /\ 0 < stats.current
    /\ stats.current < stats.longest
    /\ stats.longest < Cardinality(CompletionDays)

\* C34: the tutorial's streak package agrees with the application's
\* calculator: for the completion times of the stored sessions, most
\* recent first (two sessions of one day give a duplicate day),
\* streak.Calculate returns the current streak and streak.LongestStreak
\* the longest streak that calculateStreaks returned at the same clock.
C34_TutorialAgrees ==
    Calculated
        => /\ Calculate(MostRecentFirst(completedAt), clock, dstShift)
                 = stats.current
           /\ LongestStreak(MostRecentFirst(completedAt)) = stats.longest

\* C35: the four timer states exclude one another in every reachable
\* state: a timer whose confirmation is open is not running and has time
\* remaining, so it is never ConfirmingAbandon while Running or Complete.
C35_ConfirmingExcludesOthers ==
    timer.confirming => (~timer.running /\ timer.remainingSeconds > 0)

\* C35 witness: the confirmation was opened before the first tick; the tick
\* and the rotation tick scheduled at creation have since been delivered to
\* the confirming timer.
C35_Witness ==
    /\ InTimerView
    /\ timer.confirming
    /\ ~timer.running
    /\ timer.remainingSeconds = timer.totalSeconds
    /\ timer.totalSeconds > 0
    /\ PendingTicks = 0
    /\ PendingQuoteTicks = 0

\* C36: for every duration D >= 0 given to NewTimerModel, a timer on screen
\* has remaining = 0 only when it is Complete: it is not running and a
\* TimerCompleteMsg it emitted is on its way to the application; it is
\* never running with remaining = 0.
C36_ZeroOnlyWhenComplete ==
    (InTimerView /\ timer.remainingSeconds = 0)
        => (~timer.running /\ PendingComplete > 0)

\* C37: tick and rotation messages scheduled by one timer never affect a
\* later timer.  The second timer gets no input, so a second pending tick
\* (rotation tick) beside its own is the one the first timer scheduled, and
\* being the older it is the one delivered: its delivery leaves the timer as
\* it was and only the timer's own tick (rotation tick) in flight.
C37_StaleTicksIgnored ==
    [][/\ (InTimerView /\ PendingTicks = 2 /\ DeliverTick)
            => (timer' = timer /\ PendingTicks' = 1)
       /\ (InTimerView /\ PendingQuoteTicks = 2 /\ DeliverQuoteTick)
            => (timer' = timer /\ PendingQuoteTicks' = 1)]_vars

\* The session that db.CreateSession stores for the timer on screen when
\* the TimerCompleteMsg msg is handled.
SessionFor(msg) ==
    [Status |-> IF msg.Completed THEN "completed" ELSE "abandoned",
     SubjectID |-> timer.subjectID,
     Duration |-> timer.totalSeconds \div SecondsPerMinute,
     StartedAt |-> timer.startedAt]

\* AppModel.Update handles the TimerCompleteMsg msg; ok tells whether the
\* insert succeeds.
OnOutcome(msg, ok) ==
    /\ msg.type = "TimerCompleteMsg"
    /\ Step(msg, SetToBag({msg}), MaxMinutes, ok)

\* A StatsLoadedMsg with statistics whose current streak is s is in flight.
StatsInFlight(s) == CopiesIn(StatsLoadedMsg(s, FALSE), msgs) > 0

\* C32: on TimerCompleteMsg, AppModel.Update stores one Session, completed
\* if Completed is true and abandoned otherwise, with the subject of the
\* timer, its total time in minutes and its start time (the collection is
\* unchanged if the insert fails); it makes the menu the current view and
\* puts one call of db.GetSessionStats in flight; and statistics that such
\* a call returns are eventually shown as the streak of the menu.
C32_OutcomeSavedAndReloaded ==
    /\ [][\A msg \in BagToSet(msgs) :
            /\ OnOutcome(msg, TRUE)
                 => sessions' = sessions (+) SetToBag({SessionFor(msg)})
            /\ OnOutcome(msg, FALSE) => sessions' = sessions
            /\ \A ok \in BOOLEAN :
                 OnOutcome(msg, ok)
                   => /\ currentView' = "Menu"
                      /\ CopiesIn(ReloadStatsCall, msgs')
                           = CopiesIn(ReloadStatsCall, msgs) + 1]_vars
    /\ \A s \in 0..1 : StatsInFlight(s) ~> (menu.streak = s)

\* C32 witness: the timer ran out, its completed session is stored, the
\* menu is the current view and shows the streak of one day read from the
\* stored sessions.
C32_Witness ==
    /\ currentView = "Menu"
    /\ sessions = SetToBag({[Status |-> "completed",
                             SubjectID |-> timer.subjectID,
                             Duration |-> timer.totalSeconds \div SecondsPerMinute,
                             StartedAt |-> timer.startedAt]})
    /\ timer.remainingSeconds = 0
    /\ menu.streak = 1
    /\ msgs = EmptyBag

\* C31: while BEOT_MONGODB_URI is absent, every call of Connect has failed
\* with the error of getMongoURI, no connection has been attempted and
\* Client and Database are nil; and in any case Client and Database are set
\* together, to a client whose mongo.Connect and Ping succeeded.
C31_NoUriNoConnection ==
    /\ conn.env = ""
         => /\ conn.attempts = 0
            /\ conn.pings = 0
            /\ conn.pc = "idle"
            /\ conn.Client = 0
            /\ conn.Database = 0
            /\ conn.calls > 0 => conn.err = "uri"
    /\ conn.Client # 0 => conn.Client \in conn.verified
    /\ conn.Database = conn.Client

\* C31 witness: Connect has been called twice without the variable and has
\* returned the error of getMongoURI both times.
C31_Witness ==
    /\ conn.env = ""
    /\ conn.calls = 2
    /\ conn.err = "uri"
    /\ conn.pc = "idle"
    /\ conn.attempts = 0
    /\ conn.Client = 0

\* C39: in the quotes screen, whenever the list of quotes is not empty the
\* cursor is on one of its quotes: 0 <= cursor < len(quotes).
C39_CursorOnAQuote ==
    (currentView = "Quotes" /\ Len(quotes.quotes) > 0)
        => (0 <= quotes.cursor /\ quotes.cursor < Len(quotes.quotes))

====
